---- MODULE Spec2Model ----
(***************************************************************************)
(* SVG Builder: the SVG cleaner (SvgCleaner in src/src/js/svgParser.js),   *)
(* the identifier generator (Utils.generateId) and the freehand path tool  *)
(* (Tools in src/src/js/tools.js).                                         *)
(*                                                                         *)
(* Strings on which the code does character-level work (attribute names    *)
(* and values, text and comment data, identifiers, path data) are          *)
(* sequences of one-character strings.  Tag names and namespaces are only  *)
(* compared for equality and are plain strings.                            *)
(***************************************************************************)
EXTENDS Integers, Sequences, FiniteSets, TLC

VARIABLES
    svgDoc,       \* the document handed to SvgCleaner.cleanSvg
    cleanedDoc,   \* the document returned by the first call
    sameDoc,      \* the document returned by another call on the same input
    againDoc,     \* the document returned by a call on cleanedDoc
    pc,           \* position of the caller
    tools,        \* the Tools object and the nodes it has created
    stroke,       \* the pointer positions of the stroke being replayed
    fed,          \* number of positions of stroke delivered so far
    points,       \* the point sequence given to simplify
    tolerance,    \* the tolerance given to simplify
    simplified,   \* the point sequence simplify returned
    retained,     \* the indices in points of the points it returned
    lookupId,     \* the identifier given to getElementById
    foundElement, \* what getElementById returned
    passIndex,    \* number of passes of cleanSvg that have run
    passSteps     \* number of nodes the last pass put on its work list

vars == <<svgDoc, cleanedDoc, sameDoc, againDoc, pc, tools, stroke, fed,
          points, tolerance, simplified, retained, lookupId, foundElement,
          passIndex, passSteps>>

cleanerVars == <<svgDoc, cleanedDoc, sameDoc, againDoc>>

toolVars == <<tools, stroke, fed>>

simplifierVars == <<points, tolerance, simplified, retained>>

lookupVars == <<lookupId, foundElement>>

passVars == <<passIndex, passSteps>>

(***************************************************************************)
(* Bounds of the model.                                                    *)
(***************************************************************************)
MaxNodes == 3

(***************************************************************************)
(* Character-level string primitives of JavaScript.                        *)
(***************************************************************************)
Whitespace == {" ", "\t", "\n", "\r"}

Digits == {"0", "1", "2", "3", "4", "5", "6", "7", "8", "9"}

SetMin(S) == CHOOSE x \in S : \A y \in S : x <= y

SetMax(S) == CHOOSE x \in S : \A y \in S : y <= x

\* String.prototype.trim
Trim(s) ==
    LET solid == {i \in 1..Len(s) : s[i] \notin Whitespace}
    IN  IF solid = {} THEN <<>> ELSE SubSeq(s, SetMin(solid), SetMax(solid))

\* String.prototype.includes
Includes(s, sub) ==
    \E i \in 1..(Len(s) - Len(sub) + 1) : SubSeq(s, i, i + Len(sub) - 1) = sub

\* String.prototype.startsWith
StartsWith(s, prefix) ==
    Len(prefix) <= Len(s) /\ SubSeq(s, 1, Len(prefix)) = prefix

RECURSIVE Flatten(_)
Flatten(seqs) ==
    IF Len(seqs) = 0 THEN <<>> ELSE Head(seqs) \o Flatten(Tail(seqs))

(***************************************************************************)
(* DOM nodes.  A node is a record; an element's attributes are a function  *)
(* from attribute names to values, its childNodes a sequence of nodes.     *)
(***************************************************************************)
SvgNamespace == "http://www.w3.org/2000/svg"

XhtmlNamespace == "http://www.w3.org/1999/xhtml"

NoAttributes == [n \in {} |-> <<>>]

ElementNode(tag, ns, attrs, kids) ==
    [nodeType |-> "element", tagName |-> tag, namespaceURI |-> ns,
     attributes |-> attrs, childNodes |-> kids, data |-> <<>>]

TextNode(chars) ==
    [nodeType |-> "text", tagName |-> "#text", namespaceURI |-> "",
     attributes |-> NoAttributes, childNodes |-> <<>>, data |-> chars]

CommentNode(chars) ==
    [nodeType |-> "comment", tagName |-> "#comment", namespaceURI |-> "",
     attributes |-> NoAttributes, childNodes |-> <<>>, data |-> chars]

\* no document, no element: null
NoDocument ==
    [nodeType |-> "none", tagName |-> "", namespaceURI |-> "",
     attributes |-> NoAttributes, childNodes |-> <<>>, data |-> <<>>]

IsElement(node) == node.nodeType = "element"

hasAttribute(node, name) == name \in DOMAIN node.attributes

\* Element.getAttribute, used only where the attribute is known to exist
getAttribute(node, name) == node.attributes[name]

removeAttribute(node, name) ==
    [node EXCEPT !.attributes =
        [n \in (DOMAIN node.attributes) \ {name} |-> node.attributes[n]]]

setAttribute(node, name, value) ==
    [node EXCEPT !.attributes =
        [n \in (DOMAIN node.attributes) \cup {name} |->
            IF n = name THEN value ELSE node.attributes[n]]]

A_id == <<"i", "d">>

A_x == <<"x">>

A_d == <<"d">>

A_style == <<"s", "t", "y", "l", "e">>

\* Element.id: the value of the id attribute, the empty string when absent
IdOf(node) == IF hasAttribute(node, A_id) THEN getAttribute(node, A_id) ELSE <<>>

\* Node.removeChild / rebuilding the child list of a node
WithChildren(node, kids) == [node EXCEPT !.childNodes = kids]

MapSeq(s, Op(_)) == [i \in 1..Len(s) |-> Op(s[i])]

\* Element.children: the child nodes that are elements
ElementChildren(node) == SelectSeq(node.childNodes, IsElement)

\* all elements below node in document order (getElementsByTagName('*'))
RECURSIVE Descendants(_)
Descendants(node) ==
    Flatten([i \in 1..Len(node.childNodes) |->
        IF IsElement(node.childNodes[i])
        THEN <<node.childNodes[i]>> \o Descendants(node.childNodes[i])
        ELSE <<>>])

\* number of nodes at and below node
RECURSIVE Size(_)
Size(node) ==
    LET kids == node.childNodes
        Sum[i \in 0..Len(kids)] == IF i = 0 THEN 0 ELSE Sum[i - 1] + Size(kids[i])
    IN  1 + Sum[Len(kids)]

(***************************************************************************)
(* Addressing a node by the sequence of child indices that leads to it.    *)
(***************************************************************************)
\* paths of all elements below node, in document order
RECURSIVE ElementPaths(_)
ElementPaths(node) ==
    Flatten([i \in 1..Len(node.childNodes) |->
        IF IsElement(node.childNodes[i])
        THEN <<<<i>>>> \o MapSeq(ElementPaths(node.childNodes[i]),
                                 LAMBDA p : <<i>> \o p)
        ELSE <<>>])

RECURSIVE NodeAt(_, _)
NodeAt(node, path) ==
    IF path = <<>> THEN node ELSE NodeAt(node.childNodes[Head(path)], Tail(path))

\* the tree with the node at path replaced by the nodes of seq (none: removed)
RECURSIVE SpliceAt(_, _, _)
SpliceAt(node, path, seq) ==
    LET i == Head(path)
        kids == node.childNodes
    IN  IF Len(path) = 1
        THEN WithChildren(node,
                 SubSeq(kids, 1, i - 1) \o seq \o SubSeq(kids, i + 1, Len(kids)))
        ELSE WithChildren(node,
                 [kids EXCEPT ![i] = SpliceAt(kids[i], Tail(path), seq)])

(***************************************************************************)
(* SvgParser.svgToString: XMLSerializer.serializeToString.  The result is  *)
(* a sequence of symbols: markup (tag opening and closing, quotes) is one  *)
(* symbol each, attribute names and values and character data are emitted  *)
(* character by character.  No value of the model holds a character that   *)
(* the serializer escapes.                                                 *)
(***************************************************************************)
RECURSIVE SeqOfSet(_)
SeqOfSet(S) ==
    IF S = {} THEN <<>>
    ELSE LET x == CHOOSE y \in S : TRUE IN <<x>> \o SeqOfSet(S \ {x})

SerializeAttributes(node) ==
    Flatten(MapSeq(SeqOfSet(DOMAIN node.attributes),
        LAMBDA n : <<" ">> \o n \o <<"=\"">> \o node.attributes[n] \o <<"\"">>))

RECURSIVE svgToString(_)
svgToString(node) ==
    CASE node.nodeType = "text" -> node.data
      [] node.nodeType = "comment" -> <<"<!--">> \o node.data \o <<"-->">>
      [] OTHER ->
            IF Len(node.childNodes) = 0
            THEN <<"<", node.tagName>> \o SerializeAttributes(node) \o <<"/>">>
            ELSE <<"<", node.tagName>> \o SerializeAttributes(node) \o <<">">>
                 \o Flatten(MapSeq(node.childNodes, svgToString))
                 \o <<"</", node.tagName, ">">>

(***************************************************************************)
(* SvgCleaner passes.                                                      *)
(***************************************************************************)
\* the hasContent loop of removeEmptyGroups and removeEmptyElements
HasContent(node) ==
    \E i \in 1..Len(node.childNodes) :
        LET child == node.childNodes[i]
        IN  \/ child.nodeType = "element"
            \/ child.nodeType = "text" /\ Trim(child.data) # <<>>

\* The groups are visited in document order, a parent before its
\* descendants, so each group is judged on the children it had on entry.
RECURSIVE removeEmptyGroups(_)
removeEmptyGroups(svgElement) ==
    LET kept == SelectSeq(svgElement.childNodes,
                    LAMBDA c : ~(IsElement(c) /\ c.tagName = "g" /\ ~HasContent(c)))
    IN  WithChildren(svgElement, MapSeq(kept, removeEmptyGroups))

significantAttrs ==
    {<<"d">>, <<"p", "o", "i", "n", "t", "s">>, <<"x">>, <<"y">>,
     <<"w", "i", "d", "t", "h">>, <<"h", "e", "i", "g", "h", "t">>, <<"r">>,
     <<"c", "x">>, <<"c", "y">>, <<"x", "1">>, <<"y", "1">>, <<"x", "2">>,
     <<"y", "2">>}

HasSignificantAttrs(node) == \E attr \in significantAttrs : hasAttribute(node, attr)

\* traverse collects the elements to remove before any is removed; it does
\* not descend into an element it collects.  The root is never collected.
RECURSIVE removeEmptyElements(_)
removeEmptyElements(svgElement) ==
    LET kept == SelectSeq(svgElement.childNodes,
                    LAMBDA c : ~(IsElement(c) /\ ~HasContent(c)
                                 /\ ~HasSignificantAttrs(c)))
    IN  WithChildren(svgElement, MapSeq(kept, removeEmptyElements))

\* the test of removeUnusedDefs on one child of the defs element
IsReferenced(svgString, item) ==
    LET idRef == <<"#">> \o IdOf(item)
        urlRef == <<"u", "r", "l", "(">> \o idRef \o <<")">>
    IN  Includes(svgString, idRef) \/ Includes(svgString, urlRef)

removeUnusedDefs(svgElement) ==
    LET defs == SelectSeq(ElementPaths(svgElement),
                    LAMBDA p : NodeAt(svgElement, p).tagName = "defs")
    IN  IF Len(defs) = 0 THEN svgElement
        ELSE LET defsElement == NodeAt(svgElement, defs[1])
                 svgString == svgToString(svgElement)
                 kept == SelectSeq(defsElement.childNodes,
                             LAMBDA item : ~(IsElement(item) /\ IdOf(item) # <<>>
                                             /\ ~IsReferenced(svgString, item)))
                 pruned == WithChildren(defsElement, kept)
             IN  IF Len(ElementChildren(pruned)) = 0
                 THEN SpliceAt(svgElement, defs[1], <<>>)
                 ELSE SpliceAt(svgElement, defs[1], <<pruned>>)

\* a slip: the iterator does not go below the children of svgElement
removeComments_childrenOnly(svgElement) ==
    WithChildren(svgElement,
        SelectSeq(svgElement.childNodes, LAMBDA c : c.nodeType # "comment"))

RECURSIVE removeComments(_)
removeComments(svgElement) ==
    LET kept == SelectSeq(svgElement.childNodes, LAMBDA c : c.nodeType # "comment")
    IN  WithChildren(svgElement, MapSeq(kept, removeComments))

\* a slip: only the children of svgElement are tested
removeNonSvgElements_childrenOnly(svgElement) ==
    WithChildren(svgElement,
        SelectSeq(svgElement.childNodes,
            LAMBDA c : ~(IsElement(c) /\ c.namespaceURI # SvgNamespace)))

\* an element outside the SVG namespace is collected and not descended into
RECURSIVE removeNonSvgElements(_)
removeNonSvgElements(svgElement) ==
    LET kept == SelectSeq(svgElement.childNodes,
                    LAMBDA c : ~(IsElement(c) /\ c.namespaceURI # SvgNamespace))
    IN  WithChildren(svgElement, MapSeq(kept, removeNonSvgElements))

unnecessaryAttrs ==
    {<<"d", "a", "t", "a", "-", "n", "a", "m", "e">>,
     <<"d", "a", "t", "a", "-", "*">>,
     <<"s", "k", "e", "t", "c", "h", ":", "t", "y", "p", "e">>,
     <<"i", "n", "k", "s", "c", "a", "p", "e", ":", "*">>,
     <<"s", "o", "d", "i", "p", "o", "d", "i", ":", "*">>,
     <<"x", "m", "l", "n", "s", ":", "x", "l", "i", "n", "k">>,
     <<"x", "m", "l", "n", "s", ":", "s", "v", "g">>,
     <<"x", "m", "l", "n", "s", ":", "s", "o", "d", "i", "p", "o", "d", "i">>,
     <<"x", "m", "l", "n", "s", ":", "i", "n", "k", "s", "c", "a", "p", "e">>}

\* a slip: a pattern that ends in * is compared like an exact name
MatchesPattern_exact(attrName, pattern) == attrName = pattern

MatchesPattern(attrName, pattern) ==
    IF pattern[Len(pattern)] = "*"
    THEN StartsWith(attrName, SubSeq(pattern, 1, Len(pattern) - 1))
    ELSE attrName = pattern

RECURSIVE cleanAttributes(_)
cleanAttributes(svgElement) ==
    IF ~IsElement(svgElement) THEN svgElement
    ELSE LET keptNames == {n \in DOMAIN svgElement.attributes :
                              /\ \A pattern \in unnecessaryAttrs :
                                     ~MatchesPattern(n, pattern)
                              /\ ~(n = A_style
                                   /\ Trim(svgElement.attributes[n]) = <<>>)}
         IN  [svgElement EXCEPT
                 !.attributes = [n \in keptNames |-> svgElement.attributes[n]],
                 !.childNodes = MapSeq(svgElement.childNodes, cleanAttributes)]

(***************************************************************************)
(* optimizePaths: the four regular-expression replacements on path data.   *)
(***************************************************************************)
\* length of the longest prefix of s whose characters are all in S
RECURSIVE RunLength(_, _)
RunLength(s, S) ==
    IF s # <<>> /\ Head(s) \in S THEN 1 + RunLength(Tail(s), S) ELSE 0

\* the lookahead (?=\s|,|$) at the head of s
AtSeparator(s) == s = <<>> \/ Head(s) \in Whitespace \cup {","}

\* d.replace(/\s+/g, ' ')
RECURSIVE CollapseWhitespace(_)
CollapseWhitespace(s) ==
    IF s = <<>> THEN <<>>
    ELSE IF Head(s) \in Whitespace
         THEN <<" ">> \o CollapseWhitespace(
                  SubSeq(s, RunLength(s, Whitespace) + 1, Len(s)))
         ELSE <<Head(s)>> \o CollapseWhitespace(Tail(s))

\* .replace(/,\s*/g, ',')
RECURSIVE TightenCommas(_)
TightenCommas(s) ==
    IF s = <<>> THEN <<>>
    ELSE IF Head(s) = ","
         THEN <<",">> \o TightenCommas(
                  SubSeq(s, RunLength(Tail(s), Whitespace) + 2, Len(s)))
         ELSE <<Head(s)>> \o TightenCommas(Tail(s))

\* .replace(/(\.\d+)0+(?=\s|,|$)/g, '$1').  At a point followed by a run of
\* n digits the lookahead can only hold at the end of the run; \d+ is greedy
\* and gives back one digit at a time, so the first match has \d+ on the
\* first n-1 digits and 0+ on the last one, which must be a zero.
RECURSIVE StripFractionZeros(_)
StripFractionZeros(s) ==
    IF s = <<>> THEN <<>>
    ELSE LET n == RunLength(Tail(s), Digits)
         IN  IF /\ Head(s) = "."
                /\ n >= 2
                /\ s[n + 1] = "0"
                /\ AtSeparator(SubSeq(s, n + 2, Len(s)))
             THEN SubSeq(s, 1, n) \o StripFractionZeros(SubSeq(s, n + 2, Len(s)))
             ELSE <<Head(s)>> \o StripFractionZeros(Tail(s))

\* .replace(/\.0+(?=\s|,|$)/g, '').  0+ takes the whole run of zeros; with
\* fewer zeros the lookahead would stand before a zero.
RECURSIVE StripZeroFraction(_)
StripZeroFraction(s) ==
    IF s = <<>> THEN <<>>
    ELSE LET n == RunLength(Tail(s), {"0"})
         IN  IF /\ Head(s) = "."
                /\ n >= 1
                /\ AtSeparator(SubSeq(s, n + 2, Len(s)))
             THEN StripZeroFraction(SubSeq(s, n + 2, Len(s)))
             ELSE <<Head(s)>> \o StripZeroFraction(Tail(s))

\* the value optimizePaths writes back for path data d
\* each replacement works on the string that the one before it returned
OptimizePathData(d) ==
    LET collapsed == {CollapseWhitespace(d)}
        tightened == {TightenCommas(s) : s \in collapsed}
        trimmed == {Trim(s) : s \in tightened}
        stripped == {StripFractionZeros(s) : s \in trimmed}
        optimized == {StripZeroFraction(s) : s \in stripped}
    IN  CHOOSE s \in optimized : TRUE

\* getElementsByTagName('path') holds descendants only, never svgElement
RECURSIVE OptimizePathNode(_)
OptimizePathNode(node) ==
    LET done == WithChildren(node, MapSeq(node.childNodes, OptimizePathNode))
    IN  IF IsElement(node) /\ node.tagName = "path" /\ hasAttribute(node, A_d)
        THEN setAttribute(done, A_d, OptimizePathData(getAttribute(node, A_d)))
        ELSE done

optimizePaths(svgElement) ==
    WithChildren(svgElement, MapSeq(svgElement.childNodes, OptimizePathNode))

(***************************************************************************)
(* Utils.generateId and ensureIds.  Math.random is a nondeterministic      *)
(* choice: each call of generateId takes the next element of draws, a      *)
(* sequence of suffixes chosen by the caller of the model.                 *)
(***************************************************************************)
\* outcomes of Math.random().toString(36).substr(2, 9) kept in the model
RandomSuffixes == {<<"k">>, <<"x">>}

generateId(suffix) == <<"i", "d", "-">> \o suffix

\* the test of ensureIds on a node other than svgElement
LacksId(node) == IdOf(node) = <<>>

\* whether traverse gives node an identifier; always is FALSE in the code
NeedsId(node, always) == always \/ LacksId(node)

\* number of generateId calls made at and below node
RECURSIVE IdsNeeded(_, _)
IdsNeeded(node, always) ==
    IF ~IsElement(node) THEN 0
    ELSE LET kids == node.childNodes
             Sum[i \in 0..Len(kids)] ==
                 IF i = 0 THEN 0 ELSE Sum[i - 1] + IdsNeeded(kids[i], always)
         IN  (IF NeedsId(node, always) THEN 1 ELSE 0) + Sum[Len(kids)]

\* traverse of ensureIds on a node other than svgElement; used is the number
\* of draws consumed before the node is reached
RECURSIVE EnsureIdsNode(_, _, _, _)
EnsureIdsNode(node, draws, used, always) ==
    IF ~IsElement(node) THEN node
    ELSE LET own == IF NeedsId(node, always) THEN 1 ELSE 0
             kids == node.childNodes
             Before[i \in 1..Len(kids)] ==
                 IF i = 1 THEN used + own
                 ELSE Before[i - 1] + IdsNeeded(kids[i - 1], always)
             named == IF own = 1
                      THEN setAttribute(node, A_id, generateId(draws[used + 1]))
                      ELSE node
         IN  WithChildren(named,
                 [i \in 1..Len(kids) |->
                     EnsureIdsNode(kids[i], draws, Before[i], always)])

\* traverse of ensureIds on svgElement, which is skipped
EnsureIdsBelow(svgElement, draws, always) ==
    LET kids == svgElement.childNodes
        Before[i \in 1..Len(kids)] ==
            IF i = 1 THEN 0 ELSE Before[i - 1] + IdsNeeded(kids[i - 1], always)
    IN  WithChildren(svgElement,
            [i \in 1..Len(kids) |-> EnsureIdsNode(kids[i], draws, Before[i], always)])

\* a slip: the root is not skipped and gets an identifier as well
ensureIds_rootToo(svgElement, draws) ==
    LET done == EnsureIdsBelow(svgElement, draws, FALSE)
    IN  IF LacksId(done)
        THEN setAttribute(done, A_id, generateId(CHOOSE suffix \in RandomSuffixes : TRUE))
        ELSE done

\* a slip: the test !node.id is dropped, every element gets a new identifier
ensureIds_overwrite(svgElement, draws) ==
    EnsureIdsBelow(svgElement, draws, TRUE)

ensureIds(svgElement, draws) == EnsureIdsBelow(svgElement, draws, FALSE)

(***************************************************************************)
(* SvgCleaner.cleanSvg.  The passes work on a deep copy.  Because of       *)
(* Math.random a call has several possible outcomes: cleanSvg(doc) is the  *)
(* set of them, each the pair of the caller's document after the call and  *)
(* the returned document.                                                  *)
(***************************************************************************)
\* Node.cloneNode(true)
cloneNode(node) == node

\* the passes of cleanSvg that precede ensureIds
BeforeEnsureIds(svgElement) ==
    optimizePaths(cleanAttributes(removeNonSvgElements(removeComments(
        removeUnusedDefs(removeEmptyElements(removeEmptyGroups(svgElement)))))))

\* the outcomes of Math.random that ensureIds can consume on svgElement:
\* generateId is called at most once for each element below the root
DrawsFor(svgElement) == [1..Len(Descendants(svgElement)) -> RandomSuffixes]

\* a slip: the passes run on the caller's document, not on a copy
cleanSvg_inPlace(doc) ==
    LET svgElement == BeforeEnsureIds(doc)
    IN  {[svgDoc |-> ensureIds(svgElement, draws),
          cleanedDoc |-> ensureIds(svgElement, draws)] :
            draws \in DrawsFor(svgElement)}

cleanSvg(doc) ==
    LET svgElement == BeforeEnsureIds(cloneNode(doc))
    IN  {[svgDoc |-> doc, cleanedDoc |-> ensureIds(svgElement, draws)] :
            draws \in DrawsFor(svgElement)}

(***************************************************************************)
(* SvgParser.getElementById: SVGSVGElement.getElementById on the root.     *)
(***************************************************************************)
\* a slip: an absent identifier raises an error value the caller must handle
getElementById_notFound(svgRoot, id) ==
    LET carriers == SelectSeq(<<svgRoot>> \o Descendants(svgRoot),
                        LAMBDA e : id # <<>> /\ IdOf(e) = id)
    IN  IF carriers = <<>>
        THEN [NoDocument EXCEPT !.nodeType = "error", !.tagName = "NotFound"]
        ELSE carriers[1]

\* the first element in document order that carries id, null when none does
getElementById(svgRoot, id) ==
    LET carriers == SelectSeq(<<svgRoot>> \o Descendants(svgRoot),
                        LAMBDA e : id # <<>> /\ IdOf(e) = id)
    IN  IF carriers = <<>> THEN NoDocument ELSE carriers[1]

LookupIdle == lookupId = <<>> /\ foundElement = NoDocument

(***************************************************************************)
(* cleanSvg pass by pass.  Every pass first collects the nodes it works on *)
(* in an array (Array.from of a node list, or the list its traverse or     *)
(* node iterator fills) and then loops over that array once.               *)
(***************************************************************************)
PassCount == 8

\* a slip: the pass is run again instead of the next one
NextPass_again(index) == index

\* the passes run one after the other, each once
NextPass(index) == index + 1

\* calls of the traverse of removeEmptyElements at and below node
RECURSIVE EmptyElementCalls(_, _)
EmptyElementCalls(node, isRoot) ==
    IF ~IsElement(node) THEN 1
    ELSE IF ~isRoot /\ ~HasContent(node) /\ ~HasSignificantAttrs(node) THEN 1
    ELSE LET kids == node.childNodes
             Sum[i \in 0..Len(kids)] ==
                 IF i = 0 THEN 0 ELSE Sum[i - 1] + EmptyElementCalls(kids[i], FALSE)
         IN  1 + Sum[Len(kids)]

\* calls of the traverse of removeNonSvgElements at and below node
RECURSIVE NonSvgCalls(_, _)
NonSvgCalls(node, isRoot) ==
    IF ~IsElement(node) THEN 1
    ELSE IF ~isRoot /\ node.namespaceURI # SvgNamespace THEN 1
    ELSE LET kids == node.childNodes
             Sum[i \in 0..Len(kids)] ==
                 IF i = 0 THEN 0 ELSE Sum[i - 1] + NonSvgCalls(kids[i], FALSE)
         IN  1 + Sum[Len(kids)]

RECURSIVE CommentCount(_)
CommentCount(node) ==
    LET kids == node.childNodes
        Sum[i \in 0..Len(kids)] ==
            IF i = 0 THEN 0 ELSE Sum[i - 1] + CommentCount(kids[i])
    IN  (IF node.nodeType = "comment" THEN 1 ELSE 0) + Sum[Len(kids)]

\* length of the work list of pass number index on svgElement
WorkList(index, svgElement) ==
    LET elements == Descendants(svgElement)
        defs == SelectSeq(elements, LAMBDA e : e.tagName = "defs")
    IN  CASE index = 1 -> Len(SelectSeq(elements, LAMBDA e : e.tagName = "g"))
          [] index = 2 -> EmptyElementCalls(svgElement, TRUE)
          [] index = 3 -> IF defs = <<>> THEN 0 ELSE Len(ElementChildren(defs[1]))
          [] index = 4 -> CommentCount(svgElement)
          [] index = 5 -> NonSvgCalls(svgElement, TRUE)
          [] index = 6 -> Size(svgElement)
          [] index = 7 -> Len(SelectSeq(elements, LAMBDA e : e.tagName = "path"))
          [] OTHER -> Size(svgElement)

PassesIdle == passIndex = 0 /\ passSteps = 0

(***************************************************************************)
(* The Tools object (src/src/js/tools.js) with the freehand path tool.     *)
(* tools.dom holds every node created so far; a node reference is its      *)
(* index in tools.dom, 0 is null.  tools.svgCanvas is the sequence of the  *)
(* references of the canvas's children.  Methods are functions from the    *)
(* state before the call to the state after it.                            *)
(***************************************************************************)
A_fill == <<"f", "i", "l", "l">>

A_stroke == <<"s", "t", "r", "o", "k", "e">>

A_strokeWidth == <<"s", "t", "r", "o", "k", "e", "-", "w", "i", "d", "t", "h">>

A_dataSelected == <<"d", "a", "t", "a", "-", "s", "e", "l", "e", "c", "t", "e", "d">>

A_dataHandleIndex == <<"d", "a", "t", "a", "-", "h", "a", "n", "d", "l", "e", "-", "i", "n", "d", "e", "x">>

A_dataHandleType == <<"d", "a", "t", "a", "-", "h", "a", "n", "d", "l", "e", "-", "t", "y", "p", "e">>

A_width == <<"w", "i", "d", "t", "h">>

A_height == <<"h", "e", "i", "g", "h", "t">>

DigitChars == <<"0", "1", "2", "3", "4", "5", "6", "7", "8", "9">>

\* the template literal ${n} for a non-negative integer n
RECURSIVE NumberToString(_)
NumberToString(n) ==
    IF n < 10 THEN <<DigitChars[n + 1]>>
    ELSE NumberToString(n \div 10) \o <<DigitChars[(n % 10) + 1]>>

\* the Tools object on an empty canvas once the path tool button is chosen
NewTools ==
    [activeTool |-> "path", selectedElement |-> 0, svgCanvas |-> <<>>,
     startPoint |-> <<0, 0>>, currentElement |-> 0, isDragging |-> FALSE,
     resizeHandles |-> <<>>, dom |-> <<>>]

\* Utils.createSvgElement and Utils.setSvgAttributes, then appendChild to the canvas
AppendToCanvas(T, element) ==
    [T EXCEPT !.dom = Append(T.dom, element),
              !.svgCanvas = Append(T.svgCanvas, Len(T.dom) + 1)]

\* a canvas child is detached from the canvas
removeChild(T, ref) ==
    [T EXCEPT !.svgCanvas = SelectSeq(T.svgCanvas, LAMBDA r : r # ref)]

removeResizeHandles(T) ==
    [T EXCEPT !.svgCanvas = SelectSeq(T.svgCanvas,
                                LAMBDA ref : \A i \in 1..Len(T.resizeHandles) :
                                                 T.resizeHandles[i] # ref),
              !.resizeHandles = <<>>]

clearSelection(T) ==
    LET cleared ==
            IF T.selectedElement # 0
            THEN [T EXCEPT
                    !.dom[T.selectedElement] =
                        setAttribute(removeAttribute(@, A_dataSelected), A_style, <<>>),
                    !.selectedElement = 0]
            ELSE T
    IN  removeResizeHandles(cleared)

\* one handle of createResizeHandles.  Its x and y come from getBBox, which
\* the rendering engine computes; they and the paint attributes are left out.
ResizeHandle(index) ==
    ElementNode("rect", SvgNamespace,
        (A_width :> <<"8">>) @@ (A_height :> <<"8">>)
        @@ (A_dataHandleIndex :> NumberToString(index))
        @@ (A_dataHandleType :> <<"r", "e", "s", "i", "z", "e">>), <<>>)

RECURSIVE AppendHandles(_, _)
AppendHandles(T, index) ==
    IF index = 8 THEN T
    ELSE LET added == AppendToCanvas(T, ResizeHandle(index))
         IN  AppendHandles(
                 [added EXCEPT !.resizeHandles = Append(@, Len(added.dom))],
                 index + 1)

createResizeHandles(T, element) == AppendHandles(removeResizeHandles(T), 0)

selectElement(T, element) ==
    LET cleared == clearSelection(T)
        selected ==
            [cleared EXCEPT
                !.selectedElement = element,
                !.dom[element] =
                    setAttribute(setAttribute(@, A_dataSelected, <<"t", "r", "u", "e">>),
                                 A_style, <<"o", "u", "t", "l", "i", "n", "e", ":", " ", "2", "p", "x", " ", "d", "a", "s", "h", "e", "d", " ", "#", "4", "a", "6", "c", "f", "7", ";">>)]
    IN  createResizeHandles(selected, element)

startPath(T, position, suffix) ==
    LET path == ElementNode("path", SvgNamespace,
                    (A_d :> (<<"M", " ">> \o NumberToString(position[1]) \o <<" ">>
                             \o NumberToString(position[2])))
                    @@ (A_fill :> <<"n", "o", "n", "e">>) @@ (A_stroke :> <<"b", "l", "a", "c", "k">>)
                    @@ (A_strokeWidth :> <<"2">>) @@ (A_id :> generateId(suffix)),
                    <<>>)
        added == AppendToCanvas(T, path)
    IN  [added EXCEPT !.currentElement = Len(added.dom), !.isDragging = TRUE]

\* a slip: the segment is rewritten as the line tool does, not appended
updatePath_lastOnly(T, position) ==
    IF T.currentElement = 0 THEN T
    ELSE LET d == getAttribute(T.dom[T.currentElement], A_d)
             start == SubSeq(d, 1, SetMin({i \in 1..(Len(d) + 1) :
                                             i = Len(d) + 1 \/ d[i] = "L"}) - 1)
             newD == Trim(start) \o <<" ", "L", " ">> \o NumberToString(position[1])
                     \o <<" ">> \o NumberToString(position[2])
         IN  [T EXCEPT !.dom[T.currentElement] = setAttribute(@, A_d, newD)]

updatePath(T, position) ==
    IF T.currentElement = 0 THEN T
    ELSE LET d == getAttribute(T.dom[T.currentElement], A_d)
             newD == d \o <<" ", "L", " ">> \o NumberToString(position[1])
                     \o <<" ">> \o NumberToString(position[2])
         IN  [T EXCEPT !.dom[T.currentElement] = setAttribute(@, A_d, newD)]

finishPath(T, position) ==
    IF T.currentElement = 0 THEN T ELSE selectElement(T, T.currentElement)

(***************************************************************************)
(* The rectangle, circle and line tools.  Pointer positions are pairs of   *)
(* natural numbers.  An attribute holds the string of the number written   *)
(* to it and is read back with parseFloat.                                 *)
(***************************************************************************)
A_y == <<"y">>

A_r == <<"r">>

A_cx == <<"c", "x">>

A_cy == <<"c", "y">>

A_x1 == <<"x", "1">>

A_y1 == <<"y", "1">>

A_x2 == <<"x", "2">>

A_y2 == <<"y", "2">>

\* the largest natural number whose square is at most n
IntegerSqrt(n) == CHOOSE k \in 0..n : k * k <= n /\ (k + 1) * (k + 1) > n

\* the string of Math.sqrt(n) for a natural number n, its decimal expansion
\* cut after three digits: "5" for 25, "6.324" for 40
SqrtToString(n) ==
    LET whole == IntegerSqrt(n)
        thousandths == CHOOSE t \in 0..999 :
                           /\ (whole * 1000 + t) * (whole * 1000 + t) <= n * 1000000
                           /\ (whole * 1000 + t + 1) * (whole * 1000 + t + 1) > n * 1000000
    IN  IF whole * whole = n THEN NumberToString(whole)
        ELSE NumberToString(whole) \o <<".">>
             \o <<DigitChars[(thousandths \div 100) + 1],
                  DigitChars[((thousandths \div 10) % 10) + 1],
                  DigitChars[(thousandths % 10) + 1]>>

\* the digits of s before its decimal point, as a number: the integer part
\* of parseFloat(s) for the strings written above
RECURSIVE WholePart(_)
WholePart(s) ==
    LET digits == SubSeq(s, 1, RunLength(s, Digits))
    IN  IF digits = <<>> THEN 0
        ELSE 10 * WholePart(SubSeq(digits, 1, Len(digits) - 1))
             + (CHOOSE v \in 0..9 : DigitChars[v + 1] = digits[Len(digits)])

\* parseFloat(s) < 5
BelowFive(s) == WholePart(s) < 5

ShapePaint(suffix) ==
    (A_stroke :> <<"b", "l", "a", "c", "k">>) @@ (A_strokeWidth :> <<"2">>) @@ (A_id :> generateId(suffix))

startRectangle(T, position, suffix) ==
    LET rect == ElementNode("rect", SvgNamespace,
                    (A_x :> NumberToString(position[1]))
                    @@ (A_y :> NumberToString(position[2]))
                    @@ (A_width :> <<"0">>) @@ (A_height :> <<"0">>)
                    @@ (A_fill :> <<"n", "o", "n", "e">>) @@ ShapePaint(suffix), <<>>)
        added == AppendToCanvas(T, rect)
    IN  [added EXCEPT !.currentElement = Len(added.dom), !.isDragging = TRUE]

\* the anchor is read from the x and y attributes of the element, which the
\* branch for a negative dimension overwrites
updateRectangle(T, position) ==
    IF T.currentElement = 0 THEN T
    ELSE LET current == T.dom[T.currentElement]
             startX == WholePart(getAttribute(current, A_x))
             startY == WholePart(getAttribute(current, A_y))
             width == position[1] - startX
             height == position[2] - startY
             wide == IF width < 0
                     THEN setAttribute(setAttribute(current, A_x, NumberToString(position[1])),
                              A_width, NumberToString(-width))
                     ELSE setAttribute(current, A_width, NumberToString(width))
             high == IF height < 0
                     THEN setAttribute(setAttribute(wide, A_y, NumberToString(position[2])),
                              A_height, NumberToString(-height))
                     ELSE setAttribute(wide, A_height, NumberToString(height))
         IN  [T EXCEPT !.dom[T.currentElement] = high]

finishRectangle(T, position) ==
    IF T.currentElement = 0 THEN T
    ELSE LET current == T.dom[T.currentElement]
         IN  IF BelowFive(getAttribute(current, A_width))
                \/ BelowFive(getAttribute(current, A_height))
             THEN removeChild(T, T.currentElement)
             ELSE selectElement(T, T.currentElement)

startCircle(T, position, suffix) ==
    LET circle == ElementNode("circle", SvgNamespace,
                      (A_cx :> NumberToString(position[1]))
                      @@ (A_cy :> NumberToString(position[2]))
                      @@ (A_r :> <<"0">>)
                      @@ (A_fill :> <<"n", "o", "n", "e">>) @@ ShapePaint(suffix), <<>>)
        added == AppendToCanvas(T, circle)
    IN  [added EXCEPT !.currentElement = Len(added.dom), !.isDragging = TRUE]

updateCircle(T, position) ==
    IF T.currentElement = 0 THEN T
    ELSE LET current == T.dom[T.currentElement]
             dx == position[1] - WholePart(getAttribute(current, A_cx))
             dy == position[2] - WholePart(getAttribute(current, A_cy))
         IN  [T EXCEPT !.dom[T.currentElement] =
                 setAttribute(current, A_r, SqrtToString(dx * dx + dy * dy))]

finishCircle(T, position) ==
    IF T.currentElement = 0 THEN T
    ELSE IF BelowFive(getAttribute(T.dom[T.currentElement], A_r))
         THEN removeChild(T, T.currentElement)
         ELSE selectElement(T, T.currentElement)

startLine(T, position, suffix) ==
    LET line == ElementNode("line", SvgNamespace,
                    (A_x1 :> NumberToString(position[1]))
                    @@ (A_y1 :> NumberToString(position[2]))
                    @@ (A_x2 :> NumberToString(position[1]))
                    @@ (A_y2 :> NumberToString(position[2]))
                    @@ ShapePaint(suffix), <<>>)
        added == AppendToCanvas(T, line)
    IN  [added EXCEPT !.currentElement = Len(added.dom), !.isDragging = TRUE]

updateLine(T, position) ==
    IF T.currentElement = 0 THEN T
    ELSE [T EXCEPT !.dom[T.currentElement] =
             setAttribute(setAttribute(@, A_x2, NumberToString(position[1])),
                 A_y2, NumberToString(position[2]))]

\* Math.sqrt(dx * dx + dy * dy) < 5 for whole dx and dy
finishLine(T, position) ==
    IF T.currentElement = 0 THEN T
    ELSE LET current == T.dom[T.currentElement]
             dx == WholePart(getAttribute(current, A_x2))
                   - WholePart(getAttribute(current, A_x1))
             dy == WholePart(getAttribute(current, A_y2))
                   - WholePart(getAttribute(current, A_y1))
         IN  IF BelowFive(SqrtToString(dx * dx + dy * dy))
             THEN removeChild(T, T.currentElement)
             ELSE selectElement(T, T.currentElement)

\* the three mouse handlers: the cases of the rect, circle, line and path
\* tools
handleMouseDown(T, position, suffix) ==
    LET started == [T EXCEPT !.startPoint = position]
    IN  CASE T.activeTool = "rect" -> startRectangle(started, position, suffix)
          [] T.activeTool = "circle" -> startCircle(started, position, suffix)
          [] T.activeTool = "line" -> startLine(started, position, suffix)
          [] T.activeTool = "path" -> startPath(started, position, suffix)
          [] OTHER -> started

handleMouseMove(T, position) ==
    IF ~T.isDragging THEN T
    ELSE CASE T.activeTool = "rect" -> updateRectangle(T, position)
           [] T.activeTool = "circle" -> updateCircle(T, position)
           [] T.activeTool = "line" -> updateLine(T, position)
           [] T.activeTool = "path" -> updatePath(T, position)
           [] OTHER -> T

handleMouseUp(T, position) ==
    IF ~T.isDragging THEN T
    ELSE LET finished ==
                 CASE T.activeTool = "rect" -> finishRectangle(T, position)
                   [] T.activeTool = "circle" -> finishCircle(T, position)
                   [] T.activeTool = "line" -> finishLine(T, position)
                   [] T.activeTool = "path" -> finishPath(T, position)
                   [] OTHER -> T
         IN  [finished EXCEPT !.isDragging = FALSE, !.currentElement = 0]

(***************************************************************************)
(* Editing the canvas: the key handler of Tools (Delete, Ctrl+C) and the   *)
(* grouping operations of Layers (src/unnamed/part_001).                   *)
(***************************************************************************)
A_transform == <<"t", "r", "a", "n", "s", "f", "o", "r", "m">>

\* SvgParser.removeElement
removeElement(T, element) ==
    IF element # 0 /\ \E i \in 1..Len(T.svgCanvas) : T.svgCanvas[i] = element
    THEN removeChild(T, element)
    ELSE T

\* SvgParser.cloneElement
cloneElement(node) == cloneNode(node)

\* the clone that the Ctrl+C branch of handleKeyDown appends to the canvas
CopyOf(node, suffix) ==
    LET clone == setAttribute(cloneElement(node), A_id, generateId(suffix))
    IN  setAttribute(clone, A_transform,
            (IF hasAttribute(clone, A_transform)
             THEN getAttribute(clone, A_transform) ELSE <<>>)
            \o <<" ", "t", "r", "a", "n", "s", "l", "a", "t", "e", "(", "1", "0", ",", " ", "1", "0", ")">>)

handleKeyDown(T, key, ctrlKey, suffix) ==
    IF key = "Delete" /\ T.selectedElement # 0
    THEN clearSelection(removeElement(T, T.selectedElement))
    ELSE IF key = "c" /\ ctrlKey /\ T.selectedElement # 0
    THEN LET added == AppendToCanvas(T, CopyOf(T.dom[T.selectedElement], suffix))
         IN  selectElement(added, Len(added.dom))
    ELSE T

\* svgCanvas.getElementById(id): the first element in document order that
\* carries id.  ref is the canvas child that is or holds it (0: none), and
\* nested tells that the element is below that child.
FindInCanvas(T, id) ==
    LET holders == {i \in 1..Len(T.svgCanvas) :
                       LET child == T.dom[T.svgCanvas[i]]
                       IN  \/ IdOf(child) = id
                           \/ \E k \in 1..Len(Descendants(child)) :
                                  IdOf(Descendants(child)[k]) = id}
    IN  IF id = <<>> \/ holders = {} THEN [ref |-> 0, nested |-> FALSE, element |-> NoDocument]
        ELSE LET ref == T.svgCanvas[SetMin(holders)]
                 below == SelectSeq(Descendants(T.dom[ref]), LAMBDA e : IdOf(e) = id)
             IN  IF IdOf(T.dom[ref]) = id
                 THEN [ref |-> ref, nested |-> FALSE, element |-> T.dom[ref]]
                 ELSE [ref |-> ref, nested |-> TRUE, element |-> below[1]]

\* the forEach of groupElements.  svgCanvas.removeChild throws when the
\* element found is not a child of the canvas: the handler ends there.
RECURSIVE GroupEach(_, _, _)
GroupEach(T, group, elementIds) ==
    IF elementIds = <<>> THEN [tools |-> T, group |-> group, threw |-> FALSE]
    ELSE LET found == FindInCanvas(T, Head(elementIds))
         IN  IF found.ref = 0 THEN GroupEach(T, group, Tail(elementIds))
             ELSE IF found.nested THEN [tools |-> T, group |-> group, threw |-> TRUE]
             ELSE GroupEach(removeChild(T, found.ref),
                      WithChildren(group,
                          Append(group.childNodes, cloneNode(found.element))),
                      Tail(elementIds))

groupElements(T, elementIds, suffix) ==
    IF Len(elementIds) < 2 THEN T
    ELSE LET group == ElementNode("g", SvgNamespace, A_id :> generateId(suffix), <<>>)
             each == GroupEach(T, group, elementIds)
         IN  IF each.threw THEN each.tools
             ELSE LET added == AppendToCanvas(each.tools, each.group)
                  IN  selectElement(added, Len(added.dom))

\* the forEach of ungroupElements: a clone of each child goes to the canvas
RECURSIVE AppendClones(_, _, _)
AppendClones(T, children, draws) ==
    IF children = <<>> THEN T
    ELSE LET child == IF LacksId(Head(children))
                      THEN setAttribute(Head(children), A_id,
                               generateId(draws[Len(children)]))
                      ELSE Head(children)
         IN  AppendClones(AppendToCanvas(T, cloneNode(child)), Tail(children), draws)

ungroupElements(T, groupId, draws) ==
    LET found == FindInCanvas(T, groupId)
    IN  IF found.ref = 0 \/ found.element.tagName # "g" THEN T
        ELSE LET cloned == AppendClones(T, ElementChildren(found.element), draws)
             IN  IF found.nested THEN cloned
                 ELSE clearSelection(removeChild(cloned, found.ref))

\* the click handler of a tool button (setupToolButtons)
chooseTool(T, tool) ==
    LET chosen == [T EXCEPT !.activeTool = tool]
    IN  IF tool # "select" THEN clearSelection(chosen) ELSE chosen

\* the document that UI.handleCleanSvg hands to the cleaner: the canvas
\* serialized and parsed again, that is, new nodes with the tags, attributes
\* and children of the nodes attached to the canvas, resize handles included.
\* The attributes of the canvas element itself are not part of the state.
CanvasDocument(T) ==
    ElementNode("svg", SvgNamespace, NoAttributes,
        [i \in 1..Len(T.svgCanvas) |-> cloneNode(T.dom[T.svgCanvas[i]])])

\* replaceChild and Tools.init(cleanedSvgElement): the canvas is the cleaned
\* element, whose children are new nodes; init assigns Tools.svgCanvas and
\* nothing else, so selectedElement, currentElement and resizeHandles keep
\* referring to nodes of the canvas that was replaced
InitOnCleaned(T, cleanedSvgElement) ==
    LET kids == cleanedSvgElement.childNodes
    IN  [T EXCEPT !.dom = T.dom \o kids,
                  !.svgCanvas = [i \in 1..Len(kids) |-> Len(T.dom) + i]]

\* UI.handleCleanSvg: the outcomes of one click on Clean SVG, one for each
\* outcome of Math.random in ensureIds
handleCleanSvg(T) ==
    {InitOnCleaned(T, r.cleanedDoc) : r \in cleanSvg(CanvasDocument(T))}

ToolsIdle == tools = NewTools /\ stroke = <<>> /\ fed = 0

(***************************************************************************)
(* The point-sequence simplifier and the stroke finalization policy.  The  *)
(* source has neither (the only stroke capture is the path tool above), so *)
(* both are written from sections 4.3 and 4.4 of the specification.        *)
(* Points are pairs of integers; a squared distance is a fraction          *)
(* num / den with den > 0, so that comparisons are exact.                  *)
(***************************************************************************)
SqDist(p, q) ==
    (p[1] - q[1]) * (p[1] - q[1]) + (p[2] - q[2]) * (p[2] - q[2])

\* squared distance from p to the line through a and b, not clamped to the chord
SegmentDistance_unclamped(p, a, b) ==
    LET len2 == SqDist(a, b)
        cross == (b[1] - a[1]) * (p[2] - a[2]) - (b[2] - a[2]) * (p[1] - a[1])
    IN  IF len2 = 0 THEN [num |-> SqDist(p, a), den |-> 1]
        ELSE [num |-> cross * cross, den |-> len2]

\* squared distance from p to the chord a-b, the projection parameter
\* clamped to [0,1]
SegmentDistance(p, a, b) ==
    LET len2 == SqDist(a, b)
        dot == (p[1] - a[1]) * (b[1] - a[1]) + (p[2] - a[2]) * (b[2] - a[2])
        cross == (b[1] - a[1]) * (p[2] - a[2]) - (b[2] - a[2]) * (p[1] - a[1])
    IN  IF len2 = 0 \/ dot <= 0 THEN [num |-> SqDist(p, a), den |-> 1]
        ELSE IF dot >= len2 THEN [num |-> SqDist(p, b), den |-> 1]
        ELSE [num |-> cross * cross, den |-> len2]

Farther(d1, d2) == d1.num * d2.den > d2.num * d1.den

\* a slip: a distance equal to the tolerance counts as exceeding it
ExceedsTolerance_orEqual(d, tol) == d.num >= tol * tol * d.den

ExceedsTolerance(d, tol) == d.num > tol * tol * d.den

\* the two results concatenated with the shared point kept twice
JoinResults_keepShared(left, right) == left \o right

\* the two results concatenated, the duplicated shared point removed
JoinResults(left, right) == left \o Tail(right)

RECURSIVE SimplifyRange(_, _, _, _)
\* a slip: among points of equal maximum distance the highest index is taken
SimplifyRange_highestOnTie(pts, lo, hi, tol) ==
    IF hi - lo < 2 THEN (IF lo = hi THEN <<lo>> ELSE <<lo, hi>>)
    ELSE LET dist(i) == SegmentDistance(pts[i], pts[lo], pts[hi])
             interior == (lo + 1)..(hi - 1)
             maxIndex == SetMax({i \in interior :
                                    \A j \in interior : ~Farther(dist(j), dist(i))})
         IN  IF ExceedsTolerance(dist(maxIndex), tol)
             THEN JoinResults(SimplifyRange(pts, lo, maxIndex, tol),
                              SimplifyRange(pts, maxIndex, hi, tol))
             ELSE <<lo, hi>>

\* indices of the points of the range lo..hi that simplify keeps
SimplifyRange(pts, lo, hi, tol) ==
    IF hi - lo < 2 THEN (IF lo = hi THEN <<lo>> ELSE <<lo, hi>>)
    ELSE LET dist(i) == SegmentDistance(pts[i], pts[lo], pts[hi])
             interior == (lo + 1)..(hi - 1)
             maxIndex == SetMin({i \in interior :
                                    \A j \in interior : ~Farther(dist(j), dist(i))})
         IN  IF ExceedsTolerance(dist(maxIndex), tol)
             THEN JoinResults(SimplifyRange(pts, lo, maxIndex, tol),
                              SimplifyRange(pts, maxIndex, hi, tol))
             ELSE <<lo, hi>>

RetainedIndices(pts, tol) ==
    IF Len(pts) <= 2 THEN [i \in 1..Len(pts) |-> i]
    ELSE SimplifyRange(pts, 1, Len(pts), tol)

simplify(pts, tol) ==
    LET kept == RetainedIndices(pts, tol)
    IN  [k \in 1..Len(kept) |-> pts[kept[k]]]

DenseThreshold == 20

StrokeTolerance == 2

finalize(captured) ==
    IF Len(captured) <= 1 THEN [kind |-> "Discarded", points |-> <<>>]
    ELSE IF Len(captured) = 2 THEN [kind |-> "Line", points |-> captured]
    ELSE IF Len(captured) <= DenseThreshold THEN [kind |-> "Path", points |-> captured]
    ELSE [kind |-> "Path", points |-> simplify(captured, StrokeTolerance)]

SimplifierIdle ==
    points = <<>> /\ tolerance = 0 /\ simplified = <<>> /\ retained = <<>>

(***************************************************************************)
(* Input documents: a root svg element over every forest of at most        *)
(* MaxNodes nodes built from the nodes below.  The identifier id-k has the *)
(* format of the identifiers the editor gives to the elements it draws.    *)
(***************************************************************************)
IdK == <<"i", "d", "-", "k">>

UrlIdK == <<"u", "r", "l", "(", "#", "i", "d", "-", "k", ")">>

Group == ElementNode("g", SvgNamespace, NoAttributes, <<>>)

DefsElement == ElementNode("defs", SvgNamespace, NoAttributes, <<>>)

Gradient == ElementNode("linearGradient", SvgNamespace, A_id :> IdK, <<>>)

ForeignDiv == ElementNode("div", XhtmlNamespace, NoAttributes, <<>>)

RectWithFill ==
    ElementNode("rect", SvgNamespace, (A_x :> <<"1">>) @@ (A_fill :> UrlIdK), <<>>)

RectWithId ==
    ElementNode("rect", SvgNamespace, (A_x :> <<"1">>) @@ (A_id :> IdK), <<>>)

PathElement ==
    ElementNode("path", SvgNamespace,
        (A_d :> <<"1", ".", "5", "0", "0">>) @@ (A_id :> <<"p">>), <<>>)

\* an empty group that refers to id-k
GroupWithFill == ElementNode("g", SvgNamespace, A_fill :> UrlIdK, <<>>)

Containers == {Group, DefsElement, Gradient, ForeignDiv}

Leaves ==
    {RectWithFill, RectWithId, PathElement, GroupWithFill, TextNode(<<"t">>),
     CommentNode(<<"c">>)}

RECURSIVE Forests(_)
\* the trees of at most n nodes, n >= 1
Trees(n) ==
    Leaves \cup {WithChildren(c, f) : c \in Containers, f \in Forests(n - 1)}

\* the sequences of trees of at most n nodes in all
Forests(n) ==
    IF n = 0 THEN {<<>>}
    ELSE {<<>>} \cup UNION {{<<t>> \o f : f \in Forests(n - Size(t))} : t \in Trees(n)}

\* a document with two definitions containers: the definition id-k of the
\* second one is referred to by an empty group only
TwoDefsDocument ==
    ElementNode("svg", SvgNamespace, NoAttributes,
        <<WithChildren(DefsElement, <<PathElement>>),
          WithChildren(DefsElement, <<RectWithId>>),
          GroupWithFill>>)

A_rx == <<"r", "x">>

A_ry == <<"r", "y">>

\* an ellipse centred on the origin: its only geometry is its two radii
EllipseElement ==
    ElementNode("ellipse", SvgNamespace, (A_rx :> <<"1">>) @@ (A_ry :> <<"2">>), <<>>)

EllipseDocument == ElementNode("svg", SvgNamespace, NoAttributes, <<EllipseElement>>)

\* a document whose root is not an SVG element: it holds a rect, and a
\* foreign element that holds a rect
ForeignRootDocument ==
    ElementNode("div", XhtmlNamespace, NoAttributes,
        <<RectWithFill, WithChildren(ForeignDiv, <<RectWithId>>)>>)

\* a document with authoring-tool attributes and style attributes on its
\* root and below it
DecoratedDocument ==
    ElementNode("svg", SvgNamespace,
        (<<"d", "a", "t", "a", "-", "n", "a", "m", "e">> :> <<"a">>) @@ (<<"s", "t", "y", "l", "e">> :> <<" ">>) @@ (<<"w", "i", "d", "t", "h">> :> <<"9">>),
        <<ElementNode("rect", SvgNamespace,
              (<<"x">> :> <<"1">>) @@ (<<"i", "n", "k", "s", "c", "a", "p", "e", ":", "l", "a", "b", "e", "l">> :> <<"a">>) @@ (<<"s", "t", "y", "l", "e">> :> <<"a">>)
              @@ (<<"s", "o", "d", "i", "p", "o", "d", "i", ":", "x">> :> <<"1">>) @@ (<<"x", "m", "l", "n", "s", ":", "x", "l", "i", "n", "k">> :> <<"u">>) @@ (<<"s", "k", "e", "t", "c", "h", ":", "t", "y", "p", "e">> :> <<"a">>),
              <<>>),
          ElementNode("g", SvgNamespace, (<<"d", "a", "t", "a", "-", "x">> :> <<"1">>),
              <<ElementNode("path", SvgNamespace,
                    (<<"d">> :> <<"1", ".", "5", "0", "0">>) @@ (<<"i", "d">> :> <<"p">>) @@ (<<"s", "t", "y", "l", "e">> :> <<>>),
                    <<>>)>>)>>)

InputDocs ==
    {ElementNode("svg", SvgNamespace, NoAttributes, f) : f \in Forests(MaxNodes)}
    \cup {TwoDefsDocument, EllipseDocument, ForeignRootDocument, DecoratedDocument}

(***************************************************************************)
(* The caller: one call of cleanSvg on the input document, then either     *)
(* another call on the same input or a call on the returned document.      *)
(***************************************************************************)
Init ==
    /\ svgDoc \in InputDocs
    /\ cleanedDoc = NoDocument
    /\ sameDoc = NoDocument
    /\ againDoc = NoDocument
    /\ pc = "start"
    /\ ToolsIdle
    /\ SimplifierIdle
    /\ LookupIdle
    /\ PassesIdle

CleanSvg ==
    /\ pc = "start"
    /\ \E r \in cleanSvg(svgDoc) :
           /\ svgDoc' = r.svgDoc
           /\ cleanedDoc' = r.cleanedDoc
    /\ pc' = "cleaned"
    /\ UNCHANGED <<sameDoc, againDoc, toolVars, simplifierVars, lookupVars, passVars>>

CleanSvgSameInput ==
    /\ pc = "cleaned"
    /\ \E r \in cleanSvg(svgDoc) :
           /\ svgDoc' = r.svgDoc
           /\ sameDoc' = r.cleanedDoc
    /\ pc' = "same"
    /\ UNCHANGED <<cleanedDoc, againDoc, toolVars, simplifierVars, lookupVars, passVars>>

CleanSvgOutput ==
    /\ pc = "cleaned"
    /\ \E r \in cleanSvg(cleanedDoc) :
           /\ cleanedDoc' = r.svgDoc
           /\ againDoc' = r.cleanedDoc
    /\ pc' = "again"
    /\ UNCHANGED <<svgDoc, sameDoc, toolVars, simplifierVars, lookupVars, passVars>>

Next == CleanSvg \/ CleanSvgSameInput \/ CleanSvgOutput

Spec == Init /\ [][Next]_vars

(***************************************************************************)
(* optimizePaths on its own: a document holding one path element whose     *)
(* path data is drawn from every string of at most MaxPathLen characters   *)
(* over PathAlphabet, and the example string of the specification.         *)
(***************************************************************************)
MaxPathLen == 4

PathAlphabet == {"1", "0", ".", " ", ","}

ExamplePathData ==
    <<"1", "0", ".", "5", "0", "0", "0", "0", "0", " ", " ", "2", "0", ",",
      " ", " ", " ", ",", "3", "0", ".", "0", "0">>

PathInputs ==
    UNION {[1..n -> PathAlphabet] : n \in 0..MaxPathLen} \cup {ExamplePathData}

PathDoc(d) ==
    ElementNode("svg", SvgNamespace, NoAttributes,
        <<ElementNode("path", SvgNamespace, A_d :> d, <<>>)>>)

PathDataOf(doc) == getAttribute(doc.childNodes[1], A_d)

InitPaths ==
    /\ svgDoc \in {PathDoc(d) : d \in PathInputs}
    /\ cleanedDoc = NoDocument
    /\ sameDoc = NoDocument
    /\ againDoc = NoDocument
    /\ pc = "start"
    /\ ToolsIdle
    /\ SimplifierIdle
    /\ LookupIdle
    /\ PassesIdle

OptimizePaths ==
    /\ pc = "start"
    /\ cleanedDoc' = optimizePaths(cloneNode(svgDoc))
    /\ pc' = "optimized"
    /\ UNCHANGED <<svgDoc, sameDoc, againDoc, toolVars, simplifierVars, lookupVars, passVars>>

\* optimizePaths called on the document it has returned
OptimizePathsAgain ==
    /\ pc = "optimized"
    /\ againDoc' = optimizePaths(cloneNode(cleanedDoc))
    /\ pc' = "optimizedAgain"
    /\ UNCHANGED <<svgDoc, cleanedDoc, sameDoc, toolVars, simplifierVars, lookupVars, passVars>>

NextPaths == OptimizePaths \/ OptimizePathsAgain

SpecPaths == InitPaths /\ [][NextPaths]_vars

(***************************************************************************)
(* One stroke with the path tool: a mouse-down on the first position, a    *)
(* mouse-move on each further one, then the mouse-up.  A stroke without    *)
(* positions is a mouse-up with no drag in progress.                       *)
(***************************************************************************)
MaxStrokeLen == 3

Positions == {<<1, 1>>, <<12, 3>>}

RECURSIVE SeqsUpTo(_, _)
SeqsUpTo(S, n) ==
    IF n = 0 THEN {<<>>}
    ELSE LET shorter == SeqsUpTo(S, n - 1)
         IN  shorter \cup {Append(q, x) : q \in {r \in shorter : Len(r) = n - 1}, x \in S}

\* a dense stroke of n positions that wobbles by one unit about a line
ZigZag(n) == [i \in 1..n |-> <<i, i % 2>>]

Strokes ==
    SeqsUpTo(Positions, MaxStrokeLen)
    \cup {ZigZag(DenseThreshold), ZigZag(DenseThreshold + 1)}

InitStroke ==
    /\ svgDoc = NoDocument
    /\ cleanedDoc = NoDocument
    /\ sameDoc = NoDocument
    /\ againDoc = NoDocument
    /\ pc = "start"
    /\ tools = NewTools
    /\ stroke \in Strokes
    /\ fed = 0
    /\ SimplifierIdle
    /\ LookupIdle
    /\ PassesIdle

MouseDown ==
    /\ pc = "start"
    /\ fed = 0
    /\ Len(stroke) >= 1
    /\ \E suffix \in RandomSuffixes :
           tools' = handleMouseDown(tools, stroke[1], suffix)
    /\ fed' = 1
    /\ UNCHANGED <<cleanerVars, pc, stroke, simplifierVars, lookupVars, passVars>>

MouseMove ==
    /\ pc = "start"
    /\ fed >= 1
    /\ fed < Len(stroke)
    /\ tools' = handleMouseMove(tools, stroke[fed + 1])
    /\ fed' = fed + 1
    /\ UNCHANGED <<cleanerVars, pc, stroke, simplifierVars, lookupVars, passVars>>

MouseUp ==
    /\ pc = "start"
    /\ fed = Len(stroke)
    /\ tools' = handleMouseUp(tools, IF fed = 0 THEN <<0, 0>> ELSE stroke[fed])
    /\ pc' = "finished"
    /\ UNCHANGED <<cleanerVars, stroke, fed, simplifierVars, lookupVars, passVars>>

NextStroke == MouseDown \/ MouseMove \/ MouseUp

SpecStroke == InitStroke /\ [][NextStroke]_vars

(***************************************************************************)
(* One call of simplify on a point sequence over a small grid.             *)
(***************************************************************************)
MaxPoints == 4

MaxTolerance == 2

GridPoints == {<<0, 0>>, <<4, 0>>, <<6, 0>>, <<2, 1>>, <<2, 3>>}

InitSimplify ==
    /\ svgDoc = NoDocument
    /\ cleanedDoc = NoDocument
    /\ sameDoc = NoDocument
    /\ againDoc = NoDocument
    /\ pc = "start"
    /\ ToolsIdle
    /\ points \in SeqsUpTo(GridPoints, MaxPoints)
    /\ tolerance \in 0..MaxTolerance
    /\ simplified = <<>>
    /\ retained = <<>>
    /\ LookupIdle
    /\ PassesIdle

Simplify ==
    /\ pc = "start"
    /\ simplified' = simplify(points, tolerance)
    /\ retained' = RetainedIndices(points, tolerance)
    /\ pc' = "simplified"
    /\ UNCHANGED <<cleanerVars, toolVars, points, tolerance, lookupVars, passVars>>

NextSimplify == Simplify

SpecSimplify == InitSimplify /\ [][NextSimplify]_vars

(***************************************************************************)
(* An editing session on an empty canvas with the path tool chosen: mouse  *)
(* presses and releases, Delete, Ctrl+C, and the grouping operations       *)
(* called with identifiers found on the canvas.  Mouse moves only extend   *)
(* the path data of the element being drawn and are left to SpecStroke.    *)
(***************************************************************************)
MaxElements == 3

ClickPosition == <<1, 1>>

\* the elements attached to the canvas, in document order
CanvasElements(T) ==
    Flatten([i \in 1..Len(T.svgCanvas) |->
        <<T.dom[T.svgCanvas[i]]>> \o Descendants(T.dom[T.svgCanvas[i]])])

CanvasIds(T) == {IdOf(CanvasElements(T)[i]) : i \in 1..Len(CanvasElements(T))} \ {<<>>}

\* the nodes created so far, resize handles aside
Created(T) ==
    Cardinality({i \in 1..Len(T.dom) : ~hasAttribute(T.dom[i], A_dataHandleType)})

InitEditor ==
    /\ svgDoc = NoDocument
    /\ cleanedDoc = NoDocument
    /\ sameDoc = NoDocument
    /\ againDoc = NoDocument
    /\ pc = "editing"
    /\ ToolsIdle
    /\ SimplifierIdle
    /\ LookupIdle
    /\ PassesIdle

EditorMouseDown ==
    /\ pc = "editing"
    /\ Created(tools) < MaxElements
    /\ \E suffix \in RandomSuffixes :
           tools' = handleMouseDown(tools, ClickPosition, suffix)
    /\ UNCHANGED <<cleanerVars, pc, stroke, fed, simplifierVars, lookupVars, passVars>>

EditorMouseUp ==
    /\ pc = "editing"
    /\ tools' = handleMouseUp(tools, ClickPosition)
    /\ UNCHANGED <<cleanerVars, pc, stroke, fed, simplifierVars, lookupVars, passVars>>

KeyDownDelete ==
    /\ pc = "editing"
    /\ \E suffix \in RandomSuffixes :
           tools' = handleKeyDown(tools, "Delete", FALSE, suffix)
    /\ UNCHANGED <<cleanerVars, pc, stroke, fed, simplifierVars, lookupVars, passVars>>

KeyDownCopy ==
    /\ pc = "editing"
    /\ Created(tools) < MaxElements
    /\ \E suffix \in RandomSuffixes :
           tools' = handleKeyDown(tools, "c", TRUE, suffix)
    /\ UNCHANGED <<cleanerVars, pc, stroke, fed, simplifierVars, lookupVars, passVars>>

GroupElements ==
    /\ pc = "editing"
    /\ Created(tools) < MaxElements
    /\ \E first \in CanvasIds(tools), second \in CanvasIds(tools),
          suffix \in RandomSuffixes :
           tools' = groupElements(tools, <<first, second>>, suffix)
    /\ UNCHANGED <<cleanerVars, pc, stroke, fed, simplifierVars, lookupVars, passVars>>

UngroupElements ==
    /\ pc = "editing"
    /\ \E groupId \in CanvasIds(tools) :
           LET found == FindInCanvas(tools, groupId)
           IN  /\ Created(tools) + Len(ElementChildren(found.element)) <= MaxElements + 1
               /\ \E draws \in [1..Len(ElementChildren(found.element)) -> RandomSuffixes] :
                      tools' = ungroupElements(tools, groupId, draws)
    /\ UNCHANGED <<cleanerVars, pc, stroke, fed, simplifierVars, lookupVars, passVars>>

NextEditor ==
    \/ EditorMouseDown
    \/ EditorMouseUp
    \/ KeyDownDelete
    \/ KeyDownCopy
    \/ GroupElements
    \/ UngroupElements

SpecEditor == InitEditor /\ [][NextEditor]_vars

(***************************************************************************)
(* Selection and Clean SVG: paths are drawn (the mouse-up selects the path *)
(* drawn), a tool button is clicked (which clears the selection) and the   *)
(* Clean SVG button is clicked, in any order, while the nodes created stay *)
(* within MaxDom.                                                          *)
(***************************************************************************)
MaxDom == 20

ToolButton ==
    /\ pc = "editing"
    /\ tools' = chooseTool(tools, "path")
    /\ UNCHANGED <<cleanerVars, pc, stroke, fed, simplifierVars, lookupVars, passVars>>

CleanCanvas ==
    /\ pc = "editing"
    /\ Len(tools.dom) + Len(tools.svgCanvas) <= MaxDom
    /\ tools' \in handleCleanSvg(tools)
    /\ UNCHANGED <<cleanerVars, pc, stroke, fed, simplifierVars, lookupVars, passVars>>

NextOverlay ==
    \/ EditorMouseDown
    \/ EditorMouseUp
    \/ ToolButton
    \/ CleanCanvas

SpecOverlay == InitEditor /\ [][NextOverlay]_vars

(***************************************************************************)
(* Drawing with the rectangle, circle or line tool on an empty canvas: the *)
(* canvas accepts mouse-down, mouse-move, mouse-up and mouse-leave (the    *)
(* same handler as mouse-up) in any order, at the positions below, until   *)
(* MaxShapes elements have been started.                                   *)
(***************************************************************************)
MaxShapes == 2

ShapeTools == {"rect", "circle", "line"}

ShapePositions == {<<10, 10>>, <<4, 4>>, <<2, 2>>, <<13, 14>>, <<16, 18>>}

InitShapes ==
    /\ svgDoc = NoDocument
    /\ cleanedDoc = NoDocument
    /\ sameDoc = NoDocument
    /\ againDoc = NoDocument
    /\ pc = "drawing"
    /\ tools \in {chooseTool(NewTools, tool) : tool \in ShapeTools}
    /\ stroke = <<>>
    /\ fed = 0
    /\ SimplifierIdle
    /\ LookupIdle
    /\ PassesIdle

ShapeMouseDown ==
    /\ pc = "drawing"
    /\ Created(tools) < MaxShapes
    /\ \E position \in ShapePositions, suffix \in RandomSuffixes :
           tools' = handleMouseDown(tools, position, suffix)
    /\ UNCHANGED <<cleanerVars, pc, stroke, fed, simplifierVars, lookupVars, passVars>>

ShapeMouseMove ==
    /\ pc = "drawing"
    /\ \E position \in ShapePositions : tools' = handleMouseMove(tools, position)
    /\ UNCHANGED <<cleanerVars, pc, stroke, fed, simplifierVars, lookupVars, passVars>>

\* mouseup and mouseleave are both bound to handleMouseUp
ShapeMouseUp ==
    /\ pc = "drawing"
    /\ \E position \in ShapePositions : tools' = handleMouseUp(tools, position)
    /\ UNCHANGED <<cleanerVars, pc, stroke, fed, simplifierVars, lookupVars, passVars>>

NextShapes == ShapeMouseDown \/ ShapeMouseMove \/ ShapeMouseUp

SpecShapes == InitShapes /\ [][NextShapes]_vars

(***************************************************************************)
(* One lookup by identifier on an input document.  id-z is carried by no   *)
(* element of any input document.                                          *)
(***************************************************************************)
LookupIds == {IdK, <<"p">>, <<"i", "d", "-", "z">>}

InitLookup ==
    /\ svgDoc \in InputDocs
    /\ cleanedDoc = NoDocument
    /\ sameDoc = NoDocument
    /\ againDoc = NoDocument
    /\ pc = "start"
    /\ ToolsIdle
    /\ SimplifierIdle
    /\ lookupId \in LookupIds
    /\ foundElement = NoDocument
    /\ PassesIdle

GetElementById ==
    /\ pc = "start"
    /\ foundElement' = getElementById(svgDoc, lookupId)
    /\ pc' = "looked"
    /\ UNCHANGED <<cleanerVars, toolVars, simplifierVars, lookupId, passVars>>

NextLookup == GetElementById

SpecLookup == InitLookup /\ [][NextLookup]_vars

(***************************************************************************)
(* One call of cleanSvg, a step for the copy, one for each pass and one    *)
(* for the return.  The call runs to its end without being suspended.      *)
(***************************************************************************)
InitPasses ==
    /\ svgDoc \in InputDocs
    /\ cleanedDoc = NoDocument
    /\ sameDoc = NoDocument
    /\ againDoc = NoDocument
    /\ pc = "start"
    /\ ToolsIdle
    /\ SimplifierIdle
    /\ LookupIdle
    /\ passIndex = 0
    /\ passSteps = 0

CloneDocument ==
    /\ pc = "start"
    /\ cleanedDoc' = cloneNode(svgDoc)
    /\ pc' = "passes"
    /\ UNCHANGED <<svgDoc, sameDoc, againDoc, toolVars, simplifierVars, lookupVars,
                   passVars>>

\* pass number index has run and has left result
RunPass(index, result) ==
    /\ pc = "passes"
    /\ NextPass(passIndex) = index
    /\ cleanedDoc' = result
    /\ passSteps' = WorkList(index, cleanedDoc)
    /\ passIndex' = index
    /\ UNCHANGED <<svgDoc, sameDoc, againDoc, pc, toolVars, simplifierVars, lookupVars>>

RemoveEmptyGroups == RunPass(1, removeEmptyGroups(cleanedDoc))

RemoveEmptyElements == RunPass(2, removeEmptyElements(cleanedDoc))

RemoveUnusedDefs == RunPass(3, removeUnusedDefs(cleanedDoc))

RemoveComments == RunPass(4, removeComments(cleanedDoc))

RemoveNonSvgElements == RunPass(5, removeNonSvgElements(cleanedDoc))

CleanAttributes == RunPass(6, cleanAttributes(cleanedDoc))

OptimizePathsPass == RunPass(7, optimizePaths(cleanedDoc))

\* the documents ensureIds can leave, one for each outcome of Math.random
EnsureIdsOutcomes(svgElement) ==
    {ensureIds(svgElement, draws) : draws \in DrawsFor(svgElement)}

EnsureIds ==
    \E result \in EnsureIdsOutcomes(cleanedDoc) : RunPass(8, result)

ReturnCleaned ==
    /\ pc = "passes"
    /\ passIndex = PassCount
    /\ pc' = "returned"
    /\ UNCHANGED <<cleanerVars, toolVars, simplifierVars, lookupVars, passVars>>

NextPasses ==
    \/ CloneDocument
    \/ RemoveEmptyGroups
    \/ RemoveEmptyElements
    \/ RemoveUnusedDefs
    \/ RemoveComments
    \/ RemoveNonSvgElements
    \/ CleanAttributes
    \/ OptimizePathsPass
    \/ EnsureIds
    \/ ReturnCleaned

SpecPasses == InitPasses /\ [][NextPasses]_vars /\ WF_vars(NextPasses)

(***************************************************************************)
(* Vocabulary of the properties.                                           *)
(***************************************************************************)
\* identifiers carried by the elements of a document, root included
IdsIn(doc) ==
    LET elements == <<doc>> \o Descendants(doc)
    IN  SelectSeq(MapSeq(elements, IdOf), LAMBDA id : id # <<>>)

\* invariant I1: no identifier is carried by two elements
UniqueIds(doc) ==
    LET ids == IdsIn(doc)
    IN  \A i, j \in 1..Len(ids) : ids[i] = ids[j] => i = j

RECURSIVE IsEmptyGroupChain(_)
IsEmptyGroupChain(node) ==
    /\ IsElement(node)
    /\ node.tagName = "g"
    /\ \/ Len(node.childNodes) = 0
       \/ Len(node.childNodes) = 1 /\ IsEmptyGroupChain(node.childNodes[1])

\* attribute values of the elements of doc that are neither at path p nor below it
ValuesOutside(doc, p) ==
    LET others == SelectSeq(<<<<>>>> \o ElementPaths(doc),
                      LAMBDA q : ~(Len(q) >= Len(p) /\ SubSeq(q, 1, Len(p)) = p))
    IN  UNION {{NodeAt(doc, others[i]).attributes[n] :
                   n \in DOMAIN NodeAt(doc, others[i]).attributes} :
               i \in 1..Len(others)}

\* the element at path p of doc is an identified child of a definitions container
IsDefinition(doc, p) ==
    /\ Len(p) >= 2
    /\ NodeAt(doc, SubSeq(p, 1, Len(p) - 1)).tagName = "defs"
    /\ IdOf(NodeAt(doc, p)) # <<>>

UrlRef(id) == <<"u", "r", "l", "(", "#">> \o id \o <<")">>

\* the definition at path p of doc is referenced by url(#id) from elsewhere
ReferencedElsewhere(doc, p) ==
    \E v \in ValuesOutside(doc, p) : Includes(v, UrlRef(IdOf(NodeAt(doc, p))))

\* some element of doc has the tag and the identifier of element e
Survives(e, doc) ==
    \E i \in 1..Len(Descendants(doc)) :
        /\ Descendants(doc)[i].tagName = e.tagName
        /\ IdOf(Descendants(doc)[i]) = IdOf(e)

\* a fractional part that still ends in a zero digit
RECURSIVE HasTrailingFractionZero(_)
HasTrailingFractionZero(s) ==
    /\ s # <<>>
    /\ \/ LET n == RunLength(Tail(s), Digits)
          IN  /\ Head(s) = "."
              /\ n >= 1
              /\ s[n + 1] = "0"
              /\ AtSeparator(SubSeq(s, n + 2, Len(s)))
       \/ HasTrailingFractionZero(Tail(s))

\* the maximal runs of non-space characters of s, in order
Tokens(s) ==
    LET starts == {i \in 1..Len(s) : s[i] # " " /\ (i = 1 \/ s[i - 1] = " ")}
        stopOf(i) == SetMin({j \in i..Len(s) : j = Len(s) \/ s[j + 1] = " "})
        nth(k) == CHOOSE i \in starts : Cardinality({j \in starts : j < i}) = k - 1
    IN  [k \in 1..Cardinality(starts) |-> SubSeq(s, nth(k), stopOf(nth(k)))]

\* the number a run of decimal digits writes
RECURSIVE StringToNumber(_)
StringToNumber(s) ==
    IF s = <<>> THEN 0
    ELSE 10 * StringToNumber(SubSeq(s, 1, Len(s) - 1))
         + (CHOOSE v \in 0..9 : DigitChars[v + 1] = s[Len(s)])

\* the points a path's data visits: the numbers after its M and L
\* commands, taken in pairs
PathPoints(d) ==
    LET numbers == MapSeq(SelectSeq(Tokens(d), LAMBDA t : t[1] \in Digits),
                          StringToNumber)
    IN  [k \in 1..(Len(numbers) \div 2) |-> <<numbers[2 * k - 1], numbers[2 * k]>>]

LinePoints(line) ==
    <<<<StringToNumber(getAttribute(line, <<"x", "1">>)),
        StringToNumber(getAttribute(line, <<"y", "1">>))>>,
      <<StringToNumber(getAttribute(line, <<"x", "2">>)),
        StringToNumber(getAttribute(line, <<"y", "2">>))>>>>

\* what a finished stroke left on the canvas, resize handles aside
StrokeOutcome(T) ==
    LET drawn == SelectSeq(T.svgCanvas,
                     LAMBDA ref : ~hasAttribute(T.dom[ref], A_dataHandleType))
    IN  IF drawn = <<>> THEN [kind |-> "Discarded", points |-> <<>>]
        ELSE IF T.dom[drawn[1]].tagName = "line"
        THEN [kind |-> "Line", points |-> LinePoints(T.dom[drawn[1]])]
        ELSE [kind |-> "Path",
              points |-> PathPoints(getAttribute(T.dom[drawn[1]], A_d))]

\* p is within distance tol of the segment a-b
DistanceWithin(p, a, b, tol) ==
    LET ab2 == SqDist(a, b)
        along == (p[1] - a[1]) * (b[1] - a[1]) + (p[2] - a[2]) * (b[2] - a[2])
        across == (b[1] - a[1]) * (p[2] - a[2]) - (b[2] - a[2]) * (p[1] - a[1])
    IN  IF ab2 = 0 \/ along <= 0 THEN SqDist(p, a) <= tol * tol
        ELSE IF along >= ab2 THEN SqDist(p, b) <= tol * tol
        ELSE across * across <= tol * tol * ab2

\* the projection of p on the line through a and b falls outside the segment
ProjectsOutside(p, a, b) ==
    LET along == (p[1] - a[1]) * (b[1] - a[1]) + (p[2] - a[2]) * (b[2] - a[2])
    IN  along < 0 \/ along > SqDist(a, b)

Dropped == {i \in 1..Len(points) : \A k \in 1..Len(retained) : retained[k] # i}

\* p lies on the segment a-b
OnSegment(p, a, b) ==
    /\ (b[1] - a[1]) * (p[2] - a[2]) = (b[2] - a[2]) * (p[1] - a[1])
    /\ (a[1] <= p[1] /\ p[1] <= b[1]) \/ (b[1] <= p[1] /\ p[1] <= a[1])
    /\ (a[2] <= p[2] /\ p[2] <= b[2]) \/ (b[2] <= p[2] /\ p[2] <= a[2])

\* some element of doc, the root included, carries id
Carried(doc, id) ==
    \E i \in 1..Len(IdsIn(doc)) : IdsIn(doc)[i] = id

\* the error value of a failed lookup; no code path produces it
NotFound == [NoDocument EXCEPT !.nodeType = "error", !.tagName = "NotFound"]

\* a group that has children, all of them comments or foreign elements
HoldsOnlyStrippedContent(node) ==
    /\ IsElement(node)
    /\ node.tagName = "g"
    /\ Len(node.childNodes) >= 1
    /\ \A i \in 1..Len(node.childNodes) :
           \/ node.childNodes[i].nodeType = "comment"
           \/ /\ IsElement(node.childNodes[i])
              /\ node.childNodes[i].namespaceURI # SvgNamespace

GroupsOf(doc) == SelectSeq(Descendants(doc), LAMBDA e : e.tagName = "g")

\* no attribute value of doc holds the token #id
NoReferenceTo(doc, id) ==
    \A v \in ValuesOutside(doc, <<0>>) : ~Includes(v, <<"#">> \o id)

\* doc has a child of a definitions container with the tag and identifier of e
DefinitionKept(e, doc) ==
    \E i \in 1..Len(ElementPaths(doc)) :
        LET p == ElementPaths(doc)[i]
        IN  /\ IsDefinition(doc, p)
            /\ NodeAt(doc, p).tagName = e.tagName
            /\ IdOf(NodeAt(doc, p)) = IdOf(e)

\* v holds the token #id, not followed by a further identifier character
HasReferenceToken(v, id) ==
    LET token == <<"#">> \o id
    IN  \E i \in 1..(Len(v) - Len(token) + 1) :
            /\ SubSeq(v, i, i + Len(token) - 1) = token
            /\ \/ i + Len(token) > Len(v)
               \/ v[i + Len(token)] \in Whitespace \cup {")", ",", ";", "\""}

\* position, size, radius, path-data and endpoint attributes
GeometryAttributes == significantAttrs \cup {A_rx, A_ry}

HasGeometryAttribute(node) == \E attr \in GeometryAttributes : hasAttribute(node, attr)

\* an element with neither content nor a geometry attribute
IsDeadLeaf(node) == IsElement(node) /\ ~HasContent(node) /\ ~HasGeometryAttribute(node)

\* every proper ancestor of path p in doc, the root apart, is an SVG element
\* other than a definitions container
InDrawing(doc, p) ==
    \A k \in 1..(Len(p) - 1) :
        LET a == NodeAt(doc, SubSeq(p, 1, k))
        IN  a.namespaceURI = SvgNamespace /\ a.tagName # "defs"

\* doc holds an element with the tag and the geometry attributes of e
ShapeKept(e, doc) ==
    \E i \in 1..Len(Descendants(doc)) :
        LET n == Descendants(doc)[i]
        IN  /\ IsElement(n)
            /\ n.tagName = e.tagName
            /\ \A attr \in GeometryAttributes :
                   /\ hasAttribute(n, attr) = hasAttribute(e, attr)
                   /\ hasAttribute(e, attr) => attr = A_d
                         \/ getAttribute(n, attr) = getAttribute(e, attr)

\* the numbers written in path data s: the maximal runs of digits and
\* decimal points, in order
Lexemes(s) ==
    LET NumberChars == Digits \cup {"."}
        starts == {i \in 1..Len(s) :
                      s[i] \in NumberChars /\ (i = 1 \/ s[i - 1] \notin NumberChars)}
        stopOf(i) == SetMin({j \in i..Len(s) :
                                j = Len(s) \/ s[j + 1] \notin NumberChars})
        nth(k) == CHOOSE i \in starts : Cardinality({j \in starts : j < i}) = k - 1
    IN  [k \in 1..Cardinality(starts) |-> SubSeq(s, nth(k), stopOf(nth(k)))]

HasPoint(l) == \E i \in 1..Len(l) : l[i] = "."

\* l writes one number: at most one decimal point and at least one digit
IsNumber(l) ==
    /\ Cardinality({i \in 1..Len(l) : l[i] = "."}) <= 1
    /\ \E i \in 1..Len(l) : l[i] \in Digits

\* s without the zeros it starts with
RECURSIVE DropLeadingZeros(_)
DropLeadingZeros(s) ==
    IF s # <<>> /\ Head(s) = "0" THEN DropLeadingZeros(Tail(s)) ELSE s

\* s without the zeros it ends with
RECURSIVE DropTrailingZeros(_)
DropTrailingZeros(s) ==
    IF s # <<>> /\ s[Len(s)] = "0"
    THEN DropTrailingZeros(SubSeq(s, 1, Len(s) - 1)) ELSE s

\* the value of number l: its integer digits without leading zeros and its
\* fraction digits without trailing zeros.  Two numbers have the same value
\* exactly when these agree.
NumberValue(l) ==
    LET point == IF HasPoint(l) THEN CHOOSE i \in 1..Len(l) : l[i] = "." ELSE Len(l) + 1
    IN  [integer |-> DropLeadingZeros(SubSeq(l, 1, point - 1)),
         fraction |-> DropTrailingZeros(SubSeq(l, point + 1, Len(l)))]

SameValue(l1, l2) == NumberValue(l1) = NumberValue(l2)

\* tag and attributes of the elements at the given paths of doc
Shapes(doc, paths) ==
    [i \in 1..Len(paths) |->
        [tagName |-> NodeAt(doc, paths[i]).tagName,
         attributes |-> NodeAt(doc, paths[i]).attributes]]

\* the paths of the SVG elements of doc that have no foreign ancestor, the
\* root apart
Unenclosed(doc) ==
    SelectSeq(ElementPaths(doc),
        LAMBDA p : \A k \in 1..Len(p) :
                       NodeAt(doc, SubSeq(p, 1, k)).namespaceURI = SvgNamespace)

\* the document as it is when removeNonSvgElements starts
BeforeNonSvg(doc) ==
    removeComments(removeUnusedDefs(removeEmptyElements(removeEmptyGroups(doc))))

DeniedNames ==
    {<<"d", "a", "t", "a", "-", "n", "a", "m", "e">>, <<"s", "k", "e", "t", "c", "h", ":", "t", "y", "p", "e">>,
     <<"x", "m", "l", "n", "s", ":", "x", "l", "i", "n", "k">>, <<"x", "m", "l", "n", "s", ":", "s", "v", "g">>,
     <<"x", "m", "l", "n", "s", ":", "s", "o", "d", "i", "p", "o", "d", "i">>,
     <<"x", "m", "l", "n", "s", ":", "i", "n", "k", "s", "c", "a", "p", "e">>}

DeniedPrefixes ==
    {<<"d", "a", "t", "a", "-">>, <<"i", "n", "k", "s", "c", "a", "p", "e", ":">>,
     <<"s", "o", "d", "i", "p", "o", "d", "i", ":">>}

\* attribute name n is on the deny-list or starts with a deny-listed prefix
IsDenied(n) == n \in DeniedNames \/ \E prefix \in DeniedPrefixes : StartsWith(n, prefix)

\* attribute n of element e is one that strip decorative attributes removes
IsDecorative(e, n) == IsDenied(n) \/ (n = A_style /\ Trim(e.attributes[n]) = <<>>)

\* element after can be what the passes have made of element before
SameButCleaned(before, after) ==
    /\ after.tagName = before.tagName
    /\ \A n \in DOMAIN after.attributes :
           \/ n = A_d /\ n \in DOMAIN before.attributes
           \/ n = A_id /\ IdOf(before) = <<>>
           \/ n \in DOMAIN before.attributes
              /\ after.attributes[n] = before.attributes[n]
    /\ \A n \in DOMAIN before.attributes :
           ~IsDecorative(before, n) => n \in DOMAIN after.attributes

\* the elements afters are, in their order, what is left of some of the
\* elements befores
RECURSIVE LeftOf(_, _)
LeftOf(afters, befores) ==
    IF afters = <<>> THEN TRUE
    ELSE IF befores = <<>> THEN FALSE
    ELSE IF SameButCleaned(Head(befores), Head(afters))
         THEN LeftOf(Tail(afters), Tail(befores))
         ELSE LeftOf(afters, Tail(befores))

\* the nodes at and below node in document order, each with its depth and
\* without its children
RECURSIVE Preorder(_, _)
Preorder(node, depth) ==
    <<[depth |-> depth, node |-> [node EXCEPT !.childNodes = <<>>]]>>
    \o Flatten([i \in 1..Len(node.childNodes) |->
           Preorder(node.childNodes[i], depth + 1)])

IsComment(entry) == entry.node.nodeType = "comment"

\* the document as it is when removeComments starts
BeforeComments(doc) == removeUnusedDefs(removeEmptyElements(removeEmptyGroups(doc)))

\* the intermediate points of pts at maximum distance from the chord
\* between its first and its last point
Farthest(pts) ==
    LET n == Len(pts)
        dist(i) == SegmentDistance(pts[i], pts[1], pts[n])
    IN  {i \in 2..(n - 1) :
            \A j \in 2..(n - 1) : dist(j).num * dist(i).den <= dist(i).num * dist(j).den}

\* the distance of point i of pts from that chord is greater than tol
BeyondTolerance(pts, i, tol) ==
    LET d == SegmentDistance(pts[i], pts[1], pts[Len(pts)])
    IN  d.num > tol * tol * d.den

\* element e has the shape of a resize handle: an 8 by 8 rect.  The tools of
\* the sessions modelled draw paths only.
FromHandle(e) ==
    /\ e.tagName = "rect"
    /\ hasAttribute(e, A_width) /\ getAttribute(e, A_width) = <<"8">>
    /\ hasAttribute(e, A_height) /\ getAttribute(e, A_height) = <<"8">>

Tracked(T, ref) == \E i \in 1..Len(T.resizeHandles) : T.resizeHandles[i] = ref

\* element e is a rectangle, circle or line below the minimum size.  Resize
\* handles are 8 by 8 and are not drawn by a tool.
IsTiny(e) ==
    /\ ~hasAttribute(e, A_dataHandleType)
    /\ \/ /\ e.tagName = "rect"
          /\ \/ BelowFive(getAttribute(e, A_width))
             \/ BelowFive(getAttribute(e, A_height))
       \/ e.tagName = "circle" /\ BelowFive(getAttribute(e, A_r))
       \/ /\ e.tagName = "line"
          /\ LET dx == WholePart(getAttribute(e, A_x2)) - WholePart(getAttribute(e, A_x1))
                 dy == WholePart(getAttribute(e, A_y2)) - WholePart(getAttribute(e, A_y1))
             IN  dx * dx + dy * dy < 25

\* the rectangle e spans from corner a to corner b
Spans(e, a, b) ==
    /\ WholePart(getAttribute(e, A_x)) = SetMin({a[1], b[1]})
    /\ WholePart(getAttribute(e, A_y)) = SetMin({a[2], b[2]})
    /\ WholePart(getAttribute(e, A_width)) = SetMax({a[1], b[1]}) - SetMin({a[1], b[1]})
    /\ WholePart(getAttribute(e, A_height)) = SetMax({a[2], b[2]}) - SetMin({a[2], b[2]})

(***************************************************************************)
(* Properties.                                                             *)
(***************************************************************************)
\* C1: for every well-formed input tree T (I1 holds on entry),
\* optimize(optimize(T)) is structurally equal to optimize(T).
C1_Idempotence ==
    (pc = "again" /\ UniqueIds(svgDoc)) => againDoc = cleanedDoc

\* C2: an identified child E of a definitions container that is referenced
\* by url(#id) from an attribute value elsewhere in T is still present in
\* optimize(T).
C2_ReferenceLiveness ==
    pc = "cleaned" =>
        \A i \in 1..Len(ElementPaths(svgDoc)) :
            LET p == ElementPaths(svgDoc)[i]
            IN  (IsDefinition(svgDoc, p) /\ ReferencedElsewhere(svgDoc, p))
                    => Survives(NodeAt(svgDoc, p), cleanedDoc)

\* C3: for every input tree T, no two elements of optimize(T) carry the
\* same identifier.
C3_IdentifierUniqueness ==
    pc = "cleaned" => UniqueIds(cleanedDoc)

\* C4: when the children of the root are chains of nested groups whose
\* innermost group is empty, one call of optimize removes every group of
\* every chain: the root of the result has no child.
C4_DeadChainRemoved ==
    (/\ pc = "cleaned"
     /\ \A i \in 1..Len(svgDoc.childNodes) : IsEmptyGroupChain(svgDoc.childNodes[i]))
        => Len(cleanedDoc.childNodes) = 0

\* C5: after pass 7 no number of the path data keeps a trailing zero digit
\* after its decimal point, and "10.500000  20,   ,30.00" has become
\* "10.5 20 30".
C5_PathCanonicalization ==
    pc = "optimized" =>
        /\ ~HasTrailingFractionZero(PathDataOf(cleanedDoc))
        /\ PathDataOf(svgDoc) = ExamplePathData =>
               PathDataOf(cleanedDoc) =
                   <<"1", "0", ".", "5", " ", "2", "0", " ", "3", "0">>

\* the value a rejected call would return; no code path produces it
MalformedDocument ==
    [nodeType |-> "error", tagName |-> "MalformedDocument", namespaceURI |-> "",
     attributes |-> NoAttributes, childNodes |-> <<>>, data |-> <<>>]

\* out with the identifiers removed from the elements that carry none in
\* pre, a tree of the same shape
RECURSIVE EraseNewIds(_, _)
EraseNewIds(out, pre) ==
    LET bare == IF IsElement(pre) /\ LacksId(pre) /\ hasAttribute(out, A_id)
                THEN removeAttribute(out, A_id) ELSE out
    IN  WithChildren(bare,
            [i \in 1..Len(out.childNodes) |->
                EraseNewIds(out.childNodes[i], pre.childNodes[i])])

C7_Deterministic ==
    pc = "same" => sameDoc = cleanedDoc

\* C7 as amended: two calls on the same input return trees that are
\* structurally equal except for the identifiers given to the elements that
\* had none, which may differ from one call to the other.
C7_DeterministicUpToNewIds ==
    pc = "same" =>
        LET pre == BeforeEnsureIds(svgDoc)
        IN  EraseNewIds(sameDoc, pre) = EraseNewIds(cleanedDoc, pre)

\* C7 witness: two calls on the same input gave different identifiers to
\* an element that had none.
C7_Witness ==
    pc = "same" /\ sameDoc # cleanedDoc

\* C8 (as stated): a finished stroke follows the finalization policy: 0 or 1
\* points are discarded, 2 points give a Line, 3 to 20 points give a Path of
\* the raw points, 21 or more points give a Path of simplify(points, 2.0).
C8_StrokePolicy ==
    pc = "finished" => StrokeOutcome(tools) = finalize(stroke)

\* C8 (amended): the path tool keeps every stroke of one or more points as a
\* selected Path that visits exactly the captured points in capture order,
\* whatever their number; only a stroke without points leaves nothing.
C8_RawPathAlways ==
    pc = "finished" =>
        IF Len(stroke) = 0
        THEN StrokeOutcome(tools) = [kind |-> "Discarded", points |-> <<>>]
        ELSE /\ StrokeOutcome(tools) = [kind |-> "Path", points |-> stroke]
             /\ tools.selectedElement # 0
             /\ tools.dom[tools.selectedElement].tagName = "path"
             /\ tools.currentElement = 0
             /\ ~tools.isDragging

\* a finished stroke of more than 20 points that the simplifier would have
\* shortened and that the canvas holds in full
C8_Witness ==
    /\ pc = "finished"
    /\ Len(stroke) > DenseThreshold
    /\ StrokeOutcome(tools).points = stroke
    /\ Len(finalize(stroke).points) < Len(stroke)

\* C9: for a non-empty point sequence, simplify returns a sequence that
\* starts with its first point, ends with its last point and is not longer;
\* a sequence of 2 or fewer points is returned unchanged.
C9_EndpointsAndNonGrowth ==
    (pc = "simplified" /\ points # <<>>) =>
        /\ simplified # <<>>
        /\ simplified[1] = points[1]
        /\ simplified[Len(simplified)] = points[Len(points)]
        /\ Len(simplified) <= Len(points)
        /\ (Len(points) <= 2 => simplified = points)

\* a call that split at an intermediate point and also dropped one
C9_Witness ==
    /\ pc = "simplified"
    /\ Len(simplified) >= 3
    /\ Len(simplified) < Len(points)

\* C10: every point that simplify drops lies within the tolerance of the
\* segment joining the two retained points that enclose it, the distance
\* being the one to the nearest point of the segment.
C10_ToleranceBound ==
    pc = "simplified" =>
        \A i \in Dropped :
            \E k \in 1..(Len(retained) - 1) :
                /\ retained[k] < i
                /\ i < retained[k + 1]
                /\ DistanceWithin(points[i], points[retained[k]],
                                  points[retained[k + 1]], tolerance)

\* a dropped point that is off the segment enclosing it and whose projection
\* falls outside that segment
C10_Witness ==
    /\ pc = "simplified"
    /\ \E i \in Dropped :
           \E k \in 1..(Len(retained) - 1) :
               /\ retained[k] < i
               /\ i < retained[k + 1]
               /\ ProjectsOutside(points[i], points[retained[k]],
                                  points[retained[k + 1]])
               /\ ~DistanceWithin(points[i], points[retained[k]],
                                  points[retained[k + 1]], 0)

\* C11: three collinear points, the middle one on the segment between the
\* other two, simplified at tolerance 0 give exactly the two endpoints.
C11_CollinearCollapse ==
    (/\ pc = "simplified"
     /\ Len(points) = 3
     /\ tolerance = 0
     /\ OnSegment(points[2], points[1], points[3]))
        => simplified = <<points[1], points[3]>>

\* three distinct collinear points simplified at tolerance 0
C11_Witness ==
    /\ pc = "simplified"
    /\ Len(points) = 3
    /\ tolerance = 0
    /\ OnSegment(points[2], points[1], points[3])
    /\ points[1] # points[2]
    /\ points[2] # points[3]
    /\ Len(simplified) = 2

\* C12: after any sequence of drawing, duplicating with Ctrl+C, grouping,
\* ungrouping and deleting, no two elements attached to the canvas carry the
\* same identifier.
C12_EditorKeepsUniqueIds ==
    pc = "editing" =>
        LET ids == SelectSeq(MapSeq(CanvasElements(tools), IdOf), LAMBDA id : id # <<>>)
        IN  \A i, j \in 1..Len(ids) : ids[i] = ids[j] => i = j

C15_StripBeforePrune ==
    (/\ pc = "cleaned"
     /\ \A i \in 1..Len(GroupsOf(svgDoc)) : HoldsOnlyStrippedContent(GroupsOf(svgDoc)[i]))
        => GroupsOf(cleanedDoc) = <<>>

\* C16: a definition that is referred to in the input, and to which nothing
\* refers any more once dead containers and dead leaves are pruned, is not
\* in the result of the same call of optimize.
C16_PruneBeforeReferenceScan ==
    pc = "cleaned" =>
        LET pruned == removeEmptyElements(removeEmptyGroups(svgDoc))
        IN  \A i \in 1..Len(ElementPaths(svgDoc)) :
                LET p == ElementPaths(svgDoc)[i]
                IN  (/\ IsDefinition(svgDoc, p)
                     /\ ReferencedElsewhere(svgDoc, p)
                     /\ NoReferenceTo(pruned, IdOf(NodeAt(svgDoc, p))))
                        => ~DefinitionKept(NodeAt(svgDoc, p), cleanedDoc)

\* C17: in the result of optimize every identified child of a definitions
\* container is referred to, by the token #x or url(#x) for its identifier
\* x, from an attribute value of the result outside that child.
C17_UnusedDefinitionsPruned ==
    pc = "cleaned" =>
        \A i \in 1..Len(ElementPaths(cleanedDoc)) :
            LET p == ElementPaths(cleanedDoc)[i]
            IN  IsDefinition(cleanedDoc, p) =>
                    \E v \in ValuesOutside(cleanedDoc, p) :
                        HasReferenceToken(v, IdOf(NodeAt(cleanedDoc, p)))

\* C18: the result of optimize holds no element, the root apart, that has
\* neither an element child or non-blank text nor a geometry attribute.
C18_DeadLeavesPruned ==
    pc = "cleaned" =>
        \A i \in 1..Len(ElementPaths(cleanedDoc)) :
            ~IsDeadLeaf(NodeAt(cleanedDoc, ElementPaths(cleanedDoc)[i]))

\* C19: a childless SVG element other than a group, outside every
\* definitions container, that carries a geometry attribute is still in the
\* result of optimize.
C19_GeometrySurvives ==
    pc = "cleaned" =>
        \A i \in 1..Len(ElementPaths(svgDoc)) :
            LET p == ElementPaths(svgDoc)[i]
                e == NodeAt(svgDoc, p)
            IN  (/\ e.childNodes = <<>>
                 /\ e.tagName # "g"
                 /\ e.namespaceURI = SvgNamespace
                 /\ InDrawing(svgDoc, p)
                 /\ HasGeometryAttribute(e))
                    => ShapeKept(e, cleanedDoc)

\* C20: pass 7 keeps the count and the value of the numbers of the path
\* data, and leaves a number written without a decimal point as it is.
C20_ValuePreserving ==
    pc = "optimized" =>
        LET before == Lexemes(PathDataOf(svgDoc))
            after == Lexemes(PathDataOf(cleanedDoc))
        IN  (\A i \in 1..Len(before) : IsNumber(before[i])) =>
                /\ Len(after) = Len(before)
                /\ \A i \in 1..Len(before) :
                       /\ IsNumber(after[i])
                       /\ SameValue(before[i], after[i])
                       /\ ~HasPoint(before[i]) => after[i] = before[i]

\* C21: pass 7 applied to the path data it has produced leaves it as it is.
C21_PathPassIdempotent ==
    pc = "optimizedAgain" => PathDataOf(againDoc) = PathDataOf(cleanedDoc)

\* C22: in the result of optimize every element below the root carries a
\* non-empty identifier, the root has the identifier it had, and an
\* identifier that an element carried when ensureIds started is unchanged.
C22_MissingIdsAssigned ==
    pc = "cleaned" =>
        LET pre == BeforeEnsureIds(svgDoc)
        IN  /\ \A i \in 1..Len(ElementPaths(cleanedDoc)) :
                   IdOf(NodeAt(cleanedDoc, ElementPaths(cleanedDoc)[i])) # <<>>
            /\ IdOf(cleanedDoc) = IdOf(svgDoc)
            /\ ElementPaths(cleanedDoc) = ElementPaths(pre)
            /\ \A i \in 1..Len(ElementPaths(pre)) :
                   LET p == ElementPaths(pre)[i]
                   IN  IdOf(NodeAt(pre, p)) # <<>> =>
                           IdOf(NodeAt(cleanedDoc, p)) = IdOf(NodeAt(pre, p))

\* a result in which one element kept its identifier and another got one
C22_Witness ==
    /\ pc = "cleaned"
    /\ LET pre == BeforeEnsureIds(svgDoc)
       IN  /\ \E i \in 1..Len(ElementPaths(pre)) :
                  IdOf(NodeAt(pre, ElementPaths(pre)[i])) = <<>>
           /\ \E i \in 1..Len(ElementPaths(pre)) :
                  IdOf(NodeAt(pre, ElementPaths(pre)[i])) # <<>>
    /\ IdOf(cleanedDoc) = <<>>

\* C23: the returned document holds no element outside the SVG namespace
\* below its root; the root is the root of the input whatever its
\* namespace; and removeNonSvgElements leaves exactly the SVG elements that
\* have no foreign ancestor, in their order.
C23_ForeignStripped ==
    /\ [](pc = "returned" =>
            \A i \in 1..Len(ElementPaths(cleanedDoc)) :
                NodeAt(cleanedDoc, ElementPaths(cleanedDoc)[i]).namespaceURI
                    = SvgNamespace)
    /\ [](pc # "start" =>
            /\ cleanedDoc.tagName = svgDoc.tagName
            /\ cleanedDoc.namespaceURI = svgDoc.namespaceURI)
    /\ [][RemoveNonSvgElements =>
            Shapes(cleanedDoc', ElementPaths(cleanedDoc'))
                = Shapes(cleanedDoc, Unenclosed(cleanedDoc))]_vars

\* under a foreign root the pass has removed a foreign element together with
\* the SVG element in it, and has left an SVG element
C23_Witness ==
    /\ pc = "passes"
    /\ passIndex = 5
    /\ svgDoc.namespaceURI # SvgNamespace
    /\ Len(ElementPaths(cleanedDoc)) >= 1
    /\ Len(Unenclosed(BeforeNonSvg(svgDoc))) + 1 < Len(ElementPaths(BeforeNonSvg(svgDoc)))

\* C24: no element of the result of optimize, the root included, carries a
\* deny-listed attribute or a blank style attribute, and the elements of the
\* result carry the other attributes they had in the input with the same
\* values, path data and newly given identifiers apart.
C24_DecorativeStripped ==
    pc = "cleaned" =>
        LET afters == <<cleanedDoc>> \o Descendants(cleanedDoc)
            befores == <<svgDoc>> \o Descendants(svgDoc)
        IN  /\ \A i \in 1..Len(afters) :
                   \A n \in DOMAIN afters[i].attributes :
                       ~IsDecorative(afters[i], n)
            /\ LeftOf(afters, befores)

\* the input carried deny-listed and blank style attributes on its root and
\* below it, and attributes that stay
C24_Witness ==
    /\ pc = "cleaned"
    /\ \E n \in DOMAIN svgDoc.attributes : IsDecorative(svgDoc, n)
    /\ \E i \in 1..Len(Descendants(svgDoc)) :
           \E n \in DOMAIN Descendants(svgDoc)[i].attributes :
               IsDenied(n) /\ n \notin DeniedNames
    /\ \E i \in 1..Len(Descendants(cleanedDoc)) :
           A_style \in DOMAIN Descendants(cleanedDoc)[i].attributes

\* C25: the returned document holds no comment at any depth, and
\* removeComments leaves every element and every text leaf where it was.
C25_CommentsStripped ==
    /\ [](pc = "returned" =>
            \A i \in 1..Len(Preorder(cleanedDoc, 0)) :
                ~IsComment(Preorder(cleanedDoc, 0)[i]))
    /\ [][RemoveComments =>
            Preorder(cleanedDoc', 0)
                = SelectSeq(Preorder(cleanedDoc, 0), LAMBDA e : ~IsComment(e))]_vars

\* the pass has removed a comment that was not a child of the root and has
\* left a text leaf
C25_Witness ==
    /\ pc = "passes"
    /\ passIndex = 4
    /\ \E i \in 1..Len(Preorder(BeforeComments(svgDoc), 0)) :
           LET e == Preorder(BeforeComments(svgDoc), 0)[i]
           IN  IsComment(e) /\ e.depth >= 2
    /\ \E i \in 1..Len(Preorder(cleanedDoc, 0)) :
           Preorder(cleanedDoc, 0)[i].node.nodeType = "text"

\* C26: on more than 2 points simplify takes the lowest index m among the
\* intermediate points farthest from the chord; when that distance is
\* greater than the tolerance the result is the result for 1..m followed
\* by the result for m..n with m once, otherwise it is the two end points;
\* the retained indices increase, so the result is a subsequence.
C26_SplitRule ==
    (pc = "simplified" /\ Len(points) > 2) =>
        LET n == Len(points)
            m == SetMin(Farthest(points))
        IN  /\ \A k \in 1..(Len(retained) - 1) : retained[k] < retained[k + 1]
            /\ simplified = [k \in 1..Len(retained) |-> points[retained[k]]]
            /\ BeyondTolerance(points, m, tolerance) =>
                   \E k \in 1..Len(retained) :
                       /\ retained[k] = m
                       /\ SubSeq(retained, 1, k) = SimplifyRange(points, 1, m, tolerance)
                       /\ SubSeq(retained, k, Len(retained))
                              = SimplifyRange(points, m, n, tolerance)
            /\ ~BeyondTolerance(points, m, tolerance) => retained = <<1, n>>

\* two intermediate points at the same, maximum distance, greater than the
\* tolerance: the split is at the first of them
C26_Witness ==
    /\ pc = "simplified"
    /\ Len(points) > 2
    /\ Cardinality(Farthest(points)) >= 2
    /\ BeyondTolerance(points, SetMin(Farthest(points)), tolerance)
    /\ \E k \in 1..Len(retained) : retained[k] = SetMin(Farthest(points))
    /\ \E k \in 1..Len(points) : \A j \in 1..Len(retained) : retained[j] # k

C28_OverlayNotContent ==
    pc = "editing" =>
        \A i \in 1..Len(tools.svgCanvas) :
            FromHandle(tools.dom[tools.svgCanvas[i]]) => Tracked(tools, tools.svgCanvas[i])

\* C29: whenever no drag is in progress, the canvas holds no rectangle with
\* width or height below 5, no circle with radius below 5 and no line
\* shorter than 5.
C29_MinimumSize ==
    (pc = "drawing" /\ ~tools.isDragging) =>
        \A i \in 1..Len(tools.svgCanvas) : ~IsTiny(tools.dom[tools.svgCanvas[i]])

\* C30: after every mouse-move of a drag with the rectangle tool the
\* rectangle being drawn spans from the mouse-down point to the position of
\* the pointer.
C30_RectangleAnchored ==
    [][\A position \in ShapePositions :
          (/\ ShapeMouseMove
           /\ tools.activeTool = "rect"
           /\ tools.isDragging
           /\ tools' = handleMouseMove(tools, position))
              => Spans(tools'.dom[tools'.currentElement], tools.startPoint, position)]_vars

====
